---- MODULE Spec2Model ----
(***************************************************************************)
(* Analytics, strategy engine and explanation engine of the EuroMillions   *)
(* line generator (src/src/analytics.py, src/src/strategies.py) together   *)
(* with the generate loop of app.py that drives them; the library          *)
(* functions of src/src/core/draws.py, src/src/core/tickets.py and         *)
(* src/src/draw_dates.py; and the ticket list of a browser session with    *)
(* its copy in localStorage (src/src/services/ticket_store.py and the      *)
(* ticket actions of app.py).  Each has a specification of its own.        *)
(***************************************************************************)
EXTENDS Integers, Sequences, FiniteSets, TLC

VARIABLES draws, strategy, pc,
          main_counter, star_counter, main_gap, star_gap,
          nums, stars, generated_lines, arg_main, arg_stars, arg_strategy,
          score, explanations, raised, rnd_stream, rnd_calls,
          include_last_draw, attempts,
          topn, insight_hot_main, insight_hot_star, insight_cold_main,
          insight_cold_star,
          payload, history_n, prepared, draw_arg, draw_result,
          ticket_line, winning_mains, winning_stars, matches,
          from_date, weeks, upcoming,
          session_tickets, local_storage, last_saved, ticket_storage_warnings,
          read_response, storage_reads, stored_at_start, deleted_ids, cleared,
          saved_new, next_ticket_id, sessions

\* the arguments and result of prepare_draws and of draw_from_payload
draws_vars == <<payload, history_n, prepared, draw_arg, draw_result>>

\* the arguments and result of count_line_matches
tickets_vars == <<ticket_line, winning_mains, winning_stars, matches>>

\* the arguments and result of upcoming_draw_dates
dates_vars == <<from_date, weeks, upcoming>>

\* the ticket list of the session, the item of the browser's localStorage,
\* the list handed to the last save and the warnings shown
store_vars == <<session_tickets, local_storage, last_saved,
                ticket_storage_warnings>>

\* the record of a session: the response its load got and how many loads it
\* made, the tickets that were in the browser when it started, the tickets
\* the user deleted, whether the user cleared all and saved a new one, the
\* next ticket id and the number of sessions so far
session_vars == <<read_response, storage_reads, stored_at_start, deleted_ids,
                  cleared, saved_new, next_ticket_id, sessions>>

storage_vars == <<store_vars, session_vars>>

library_vars == <<draws_vars, tickets_vars, dates_vars, storage_vars>>

\* the "Insight depth (Top N)" of the page and the hot and cold lists of
\* compute_insights
insights_vars == <<topn, insight_hot_main, insight_hot_star,
                   insight_cold_main, insight_cold_star>>

\* the state of the generate pass, its position and exception apart
generate_vars == <<draws, strategy, main_counter, star_counter, main_gap,
                   star_gap, nums, stars, generated_lines, arg_main, arg_stars,
                   arg_strategy, score, explanations, rnd_stream, rnd_calls,
                   include_last_draw, attempts, insights_vars>>

vars == <<draws, strategy, pc,
          main_counter, star_counter, main_gap, star_gap,
          nums, stars, generated_lines, arg_main, arg_stars, arg_strategy,
          score, explanations, raised, rnd_stream, rnd_calls,
          include_last_draw, attempts, insights_vars, library_vars>>

-----------------------------------------------------------------------------
(* Bounds of the model *)

\* longest history window
MaxDraws == 2
\* number of lines a generate pass is asked for
MaxLines == 2
\* the random source is a stream of variates that repeats with this period
RandPeriod == 2
\* number of levels a variate takes; level 0 is the smallest outcome of a
\* call of the random source and level RandLevels-1 the largest
RandLevels == 2
\* longest list of draws handed to prepare_draws
MaxPayload == 3
\* largest number of weeks asked of upcoming_draw_dates
MaxWeeks == 2
\* number of tickets the user saves
MaxTickets == 2
\* number of browser sessions
MaxSessions == 2

-----------------------------------------------------------------------------
(* Values as Python sees them.  A value is a record [k, v]:                *)
(*   k = "int"   the integer v                                             *)
(*   k = "str"   a numeric text that reads as the integer v ("02" -> 2)    *)
(*   k = "float" the finite float v/10 (v in tenths)                       *)
(*   k = "text"  a non-numeric text                                        *)
(*   k = "none"  None                                                      *)
(*   k = "nan"   float('nan')                                              *)
(*   k = "inf"   float('inf')                                              *)

PyInt(n) == [k |-> "int", v |-> n]
PyStr(n) == [k |-> "str", v |-> n]
PyFloat(tenths) == [k |-> "float", v |-> tenths]
PyText == [k |-> "text", v |-> 0]
PyNone == [k |-> "none", v |-> 0]
PyNan == [k |-> "nan", v |-> 0]
PyInf == [k |-> "inf", v |-> 0]

\* int(value): the integer, or the exception int() raises
int(value) ==
    CASE value.k = "int" -> [err |-> "", v |-> value.v]
      [] value.k = "str" -> [err |-> "", v |-> value.v]
      [] value.k = "float" ->
           [err |-> "", v |-> IF value.v >= 0 THEN value.v \div 10
                                             ELSE -((-value.v) \div 10)]
      [] value.k = "text" -> [err |-> "ValueError", v |-> 0]
      [] value.k = "nan" -> [err |-> "ValueError", v |-> 0]
      [] value.k = "none" -> [err |-> "TypeError", v |-> 0]
      [] OTHER -> [err |-> "OverflowError", v |-> 0]

\* the exceptions of `except (TypeError, ValueError)`
Caught == {"TypeError", "ValueError"}

\* a list of Python ints
IntList(seq) == [i \in 1..Len(seq) |-> PyInt(seq[i])]

Range(seq) == {seq[i] : i \in 1..Len(seq)}

\* max(list) and min(list) of a non-empty list of ints
SeqMax(seq) == CHOOSE m \in Range(seq) : \A x \in Range(seq) : x <= m

SeqMin(seq) == CHOOSE m \in Range(seq) : \A x \in Range(seq) : m <= x

\* sorted(list of ints): insertion into an ascending list, equal values
\* after the ones already there
RECURSIVE InsertAsc(_, _)
InsertAsc(seq, x) ==
    IF seq = <<>> THEN <<x>>
    ELSE IF x < Head(seq) THEN <<x>> \o seq
    ELSE <<Head(seq)>> \o InsertAsc(Tail(seq), x)

RECURSIVE sorted(_)
sorted(seq) ==
    IF seq = <<>> THEN <<>>
    ELSE InsertAsc(sorted(SubSeq(seq, 1, Len(seq) - 1)), seq[Len(seq)])

\* sorted(items, key=lambda item: item[1], reverse=...): a stable sort of
\* <<key, value>> pairs on the value alone; pairs of equal value keep their
\* order in both directions
RECURSIVE SortedByValueFrom(_, _, _, _)
SortedByValueFrom(items, v, last, step) ==
    LET bucket == SelectSeq(items, LAMBDA it : it[2] = v)
    IN  IF v = last THEN bucket
        ELSE bucket \o SortedByValueFrom(items, v + step, last, step)

SortedByValue(items, reverse) ==
    IF items = <<>> THEN <<>>
    ELSE LET vals == [i \in 1..Len(items) |-> items[i][2]]
             lo == SeqMin(vals)
             hi == SeqMax(vals)
         IN  IF reverse THEN SortedByValueFrom(items, hi, lo, -1)
             ELSE SortedByValueFrom(items, lo, hi, 1)

\* list[:n]
Take(seq, n) == SubSeq(seq, 1, IF n < Len(seq) THEN n ELSE Len(seq))

\* [key for key, _ in items]
Keys(items) == [i \in 1..Len(items) |-> items[i][1]]

-----------------------------------------------------------------------------
(* src/src/analytics.py *)

MAIN_RANGE == [i \in 1..50 |-> i]
STAR_RANGE == [i \in 1..12 |-> i]

\* _coerce_int of flatten_draw_values: the int, or None (dropped)
RECURSIVE CoerceAll(_)
CoerceAll(values) ==
    IF values = <<>> THEN <<>>
    ELSE LET c == int(Head(values))
         IN  IF c.err = "" THEN <<c.v>> \o CoerceAll(Tail(values))
             ELSE CoerceAll(Tail(values))

RECURSIVE flatten_draw_values(_, _)
flatten_draw_values(ds, field) ==
    IF ds = <<>> THEN <<>>
    ELSE CoerceAll(IF field = "numbers" THEN Head(ds).numbers ELSE Head(ds).stars)
         \o flatten_draw_values(Tail(ds), field)

\* Counter(list) that records a value once, however often it occurs
RECURSIVE CounterAcc_once(_, _)
CounterAcc_once(xs, acc) ==
    IF xs = <<>> THEN acc
    ELSE LET x == Head(xs)
         IN  IF \E i \in 1..Len(acc) : acc[i][1] = x
             THEN CounterAcc_once(Tail(xs), acc)
             ELSE CounterAcc_once(Tail(xs), Append(acc, <<x, 1>>))

\* collections.Counter(list): <<value, count>> pairs in order of first
\* occurrence
RECURSIVE CounterAcc(_, _)
CounterAcc(xs, acc) ==
    IF xs = <<>> THEN acc
    ELSE LET x == Head(xs)
         IN  IF \E i \in 1..Len(acc) : acc[i][1] = x
             THEN CounterAcc(Tail(xs),
                    [i \in 1..Len(acc) |->
                        IF acc[i][1] = x THEN <<x, acc[i][2] + 1>> ELSE acc[i]])
             ELSE CounterAcc(Tail(xs), Append(acc, <<x, 1>>))

Counter(xs) == CounterAcc(xs, <<>>)

frequency_counter(ds) ==
    [main |-> Counter(flatten_draw_values(ds, "numbers")),
     star |-> Counter(flatten_draw_values(ds, "stars"))]

\* coerce_in_range: the int when it lies in 1..hi, else None (0 here)
coerce_in_range(value, hi) ==
    IF value.k = "none" THEN 0
    ELSE LET c == int(value)
         IN  IF c.err # "" THEN 0
             ELSE IF c.v \notin 1..hi THEN 0
             ELSE c.v

\* the inner loop without the first-occurrence test: a later draw overwrites
RECURSIVE GapScanValues_overwrite(_, _, _, _, _)
GapScanValues_overwrite(gap, values, i, default_gap, hi) ==
    IF values = <<>> THEN gap
    ELSE LET n_int == coerce_in_range(Head(values), hi)
         IN  IF n_int = 0
             THEN GapScanValues_overwrite(gap, Tail(values), i, default_gap, hi)
             ELSE GapScanValues_overwrite([gap EXCEPT ![n_int] = i], Tail(values),
                                          i, default_gap, hi)

\* the inner loops of overdue_gaps over one draw's values
RECURSIVE GapScanValues(_, _, _, _, _)
GapScanValues(gap, values, i, default_gap, hi) ==
    IF values = <<>> THEN gap
    ELSE LET n_int == coerce_in_range(Head(values), hi)
         IN  IF n_int = 0
             THEN GapScanValues(gap, Tail(values), i, default_gap, hi)
             ELSE IF gap[n_int] = default_gap
             THEN GapScanValues([gap EXCEPT ![n_int] = i], Tail(values),
                                i, default_gap, hi)
             ELSE GapScanValues(gap, Tail(values), i, default_gap, hi)

\* the outer loop of overdue_gaps, i the 0-based index of Head(ds)
RECURSIVE GapScanDraws(_, _, _, _, _, _)
GapScanDraws(gap, ds, i, default_gap, hi, field) ==
    IF ds = <<>> THEN gap
    ELSE GapScanDraws(
            GapScanValues(gap,
                IF field = "numbers" THEN Head(ds).numbers ELSE Head(ds).stars,
                i, default_gap, hi),
            Tail(ds), i + 1, default_gap, hi, field)

\* overdue_gaps: the two gap tables as dict items in dict order
overdue_gaps(ds) ==
    LET default_gap == Len(ds) + 1
        mg == GapScanDraws([n \in 1..50 |-> default_gap], ds, 0, default_gap,
                           50, "numbers")
        sg == GapScanDraws([s \in 1..12 |-> default_gap], ds, 0, default_gap,
                           12, "stars")
    IN  [main |-> [n \in 1..50 |-> <<MAIN_RANGE[n], mg[n]>>],
         star |-> [s \in 1..12 |-> <<STAR_RANGE[s], sg[s]>>]]

\* top_n that sorts ascending and turns the list round for reverse=True
top_n_turned(counter, n, reverse) ==
    LET ascending == SortedByValue(counter, FALSE)
        ordered == IF reverse
                   THEN [i \in 1..Len(ascending) |-> ascending[Len(ascending) + 1 - i]]
                   ELSE ascending
    IN  Keys(Take(ordered, n))

\* top_n(counter, n, reverse), n >= 0
top_n(counter, n, reverse) ==
    LET ordered == SortedByValue(counter, reverse)
    IN  Keys(Take(ordered, n))

\* Counter.most_common(n)
most_common(counter, n) == Take(SortedByValue(counter, TRUE), n)

\* recent_draw_summary: the sorted ints of the newest draw of the window
recent_draw_summary(ds) ==
    IF ds = <<>> THEN [numbers |-> <<>>, stars |-> <<>>]
    ELSE [numbers |-> sorted(CoerceAll(ds[1].numbers)),
          stars |-> sorted(CoerceAll(ds[1].stars))]

-----------------------------------------------------------------------------
(* The random source of the process: a stream rnd of variates, fixed when  *)
(* the generator is seeded; the c-th call made to it reads Variate(rnd, c).*)

RandomStreams == [1..RandPeriod -> 0..(RandLevels - 1)]

Variate(rnd, c) == rnd[((c - 1) % RandPeriod) + 1]

\* an integer of 0..n-1 chosen by the variate u (n >= 1)
randbelow(n, u) == (u * (n - 1)) \div (RandLevels - 1)

\* random.randint(a, b)
randint(a, b, u) == a + randbelow(b - a + 1, u)

\* itertools.accumulate(weights)
RECURSIVE accumulate(_)
accumulate(weights) ==
    IF weights = <<>> THEN <<>>
    ELSE LET front == accumulate(SubSeq(weights, 1, Len(weights) - 1))
         IN  Append(front, (IF front = <<>> THEN 0 ELSE front[Len(front)])
                           + weights[Len(weights)])

\* random.choices(choices, weights=weights, k=1)[0] as an index into
\* choices: bisect of random() * total in the cumulative weights
choices_index(weights, u) ==
    LET cum_weights == accumulate(weights)
        total == cum_weights[Len(cum_weights)]
        x == randbelow(total, u)
        below == Cardinality({i \in 1..Len(weights) : cum_weights[i] <= x})
    IN  IF below + 1 <= Len(weights) THEN below + 1 ELSE Len(weights)

\* random.sample(population, k): k times, take the element at a random
\* index of the pool and move the pool's last element into its place
RECURSIVE sample(_, _, _, _)
sample(population, k, rnd, c) ==
    IF k = 0 THEN <<>>
    ELSE LET n == Len(population)
             j == randbelow(n, Variate(rnd, c)) + 1
             rest == SubSeq([population EXCEPT ![j] = population[n]], 1, n - 1)
         IN  <<population[j]>> \o sample(rest, k - 1, rnd, c + 1)

-----------------------------------------------------------------------------
(* src/src/strategies.py *)

STRATEGIES == <<"AI Mode (Blend)", "Hot Numbers", "Cold Numbers",
                "Overdue (Longest gap)", "Balanced Picks">>

\* _safe_int_list: the ints of the convertible values, in order
RECURSIVE _safe_int_list(_)
_safe_int_list(values) ==
    IF values = <<>> THEN <<>>
    ELSE LET c == int(Head(values))
         IN  IF c.err = "" THEN <<c.v>> \o _safe_int_list(Tail(values))
             ELSE _safe_int_list(Tail(values))

\* the exception that escapes _safe_int_list, "" when none does
SafeIntListError(values) ==
    IF \E i \in 1..Len(values) : int(values[i]).err \notin Caught \cup {""}
    THEN int(values[CHOOSE i \in 1..Len(values) :
                 /\ int(values[i]).err \notin Caught \cup {""}
                 /\ \A j \in 1..(i - 1) : int(values[j]).err \in Caught \cup {""}]).err
    ELSE ""

Max2(a, b) == IF a >= b THEN a ELSE b
Min2(a, b) == IF a <= b THEN a ELSE b

\* the pool of _weighted_unique_pick: value -> max(1, weight), in dict order
WeightPool(counter) ==
    [i \in 1..Len(counter) |-> <<counter[i][1], Max2(1, counter[i][2])>>]

\* the inversion without its "+ 1"
InvertWeights_unshifted(weights) ==
    LET max_weight == SeqMax(weights)
    IN  [i \in 1..Len(weights) |-> max_weight - weights[i]]

\* weights = [max_weight - w + 1 for w in weights]
InvertWeights(weights) ==
    LET max_weight == SeqMax(weights)
    IN  [i \in 1..Len(weights) |-> max_weight - weights[i] + 1]

\* the weights of one pick step over the remaining pool
StepWeights(pool, invert) ==
    LET weights == [i \in 1..Len(pool) |-> pool[i][2]]
    IN  IF invert THEN InvertWeights(weights) ELSE weights

\* the pop left out: the picked value stays in the pool
RemoveAt_kept(seq, j) == seq

\* pool.pop(selected), selected being the j-th key of the pool
RemoveAt(seq, j) == SubSeq(seq, 1, j - 1) \o SubSeq(seq, j + 1, Len(seq))

\* the iterations of the loop of _weighted_unique_pick: the pool each one
\* starts from, the weights it hands to random.choices and the key it selects
RECURSIVE PickTrace(_, _, _, _, _)
PickTrace(pool, remaining, invert, rnd, c) ==
    IF remaining = 0 THEN <<>>
    ELSE LET choices == Keys(pool)
             weights == StepWeights(pool, invert)
             selected == choices_index(weights, Variate(rnd, c))
         IN  <<[pool |-> pool, weights |-> weights, selected |-> choices[selected]]>>
             \o PickTrace(RemoveAt(pool, selected), remaining - 1, invert, rnd, c + 1)

\* the loop of _weighted_unique_pick: picked after its iterations
PickLoop(pool, picked, remaining, invert, rnd, c) ==
    LET steps == PickTrace(pool, remaining, invert, rnd, c)
    IN  picked \o [t \in 1..Len(steps) |-> steps[t].selected]

_weighted_unique_pick(counter, k, invert, rnd, c) ==
    LET pool == WeightPool(counter)
    IN  sorted(PickLoop(pool, <<>>, Min2(k, Len(pool)), invert, rnd, c))

\* the frequency table and the pool after _weighted_unique_pick with the
\* pool being the table itself instead of a dict built from it
PickObjects_shared(counter, k, invert, rnd, c) ==
    LET pool == WeightPool(counter)
        picked == Range(PickLoop(pool, <<>>, Min2(k, Len(pool)), invert, rnd, c))
        left == SelectSeq(pool, LAMBDA it : it[1] \notin picked)
    IN  [counter |-> left, pool |-> left]

\* the frequency table and the pool after _weighted_unique_pick: the pool is
\* a dict of its own, built from the items of the table, and the pops of the
\* loop take the picked keys out of it
PickObjects(counter, k, invert, rnd, c) ==
    LET pool == WeightPool(counter)
        picked == Range(PickLoop(pool, <<>>, Min2(k, Len(pool)), invert, rnd, c))
        left == SelectSeq(pool, LAMBDA it : it[1] \notin picked)
    IN  [counter |-> counter, pool |-> left]

decades == <<<<1, 10>>, <<11, 20>>, <<21, 30>>, <<31, 40>>, <<41, 50>>>>

\* _balanced_main_pick with each bucket reaching one past its decade
_balanced_main_pick_overlap(rnd, c) ==
    sorted([i \in 1..Len(decades) |->
              randint(decades[i][1], decades[i][2] + 1, Variate(rnd, c + i - 1))])

_balanced_main_pick(rnd, c) ==
    sorted([i \in 1..Len(decades) |->
              randint(decades[i][1], decades[i][2], Variate(rnd, c + i - 1))])

_balanced_star_pick(rnd, c) ==
    sorted(<<randint(1, 6, Variate(rnd, c)), randint(7, 12, Variate(rnd, c + 1))>>)

\* sorted(set(list)): the distinct values of the list in ascending order
SortedSet(list) ==
    IF list = <<>> THEN <<>>
    ELSE LET lo == SeqMin(list)
             hi == SeqMax(list)
             members == Range(list)
         IN  SelectSeq([i \in 1..(hi - lo + 1) |-> lo + i - 1],
                       LAMBDA x : x \in members)

\* the "Hot Numbers" (invert = FALSE) and "Cold Numbers" (invert = TRUE)
\* branches of build_line
WeightedLine(mcounter, scounter, invert, rnd, c) ==
    LET main_nums == _weighted_unique_pick(mcounter, 5, invert, rnd, c)
        star_nums == _weighted_unique_pick(scounter, 2, invert, rnd,
                                           c + Len(main_nums))
    IN  [main |-> main_nums, stars |-> star_nums,
         calls |-> Len(main_nums) + Len(star_nums)]

\* the overdue branch with ties of the gap broken towards the larger number
OverdueLine_ties_reversed(gaps) ==
    LET backwards(items) == [i \in 1..Len(items) |-> items[Len(items) + 1 - i]]
    IN  [main |-> sorted(Keys(Take(SortedByValue(backwards(gaps.main), TRUE), 5))),
         stars |-> sorted(Keys(Take(SortedByValue(backwards(gaps.star), TRUE), 2))),
         calls |-> 0]

\* the overdue branch sorting without reverse=True: the smallest gaps
OverdueLine_smallest_gaps(gaps) ==
    [main |-> sorted(Keys(Take(SortedByValue(gaps.main, FALSE), 5))),
     stars |-> sorted(Keys(Take(SortedByValue(gaps.star, FALSE), 2))),
     calls |-> 0]

\* the "Overdue (Longest gap)" branch of build_line
OverdueLine(gaps) ==
    [main |-> sorted(Keys(Take(SortedByValue(gaps.main, TRUE), 5))),
     stars |-> sorted(Keys(Take(SortedByValue(gaps.star, TRUE), 2))),
     calls |-> 0]

\* the "Balanced Picks" branch of build_line
BalancedLine(rnd, c) ==
    [main |-> _balanced_main_pick(rnd, c),
     stars |-> _balanced_star_pick(rnd, c + 5),
     calls |-> 7]

\* the candidates without the full range: the hot and the overdue alone
candidate_main_no_range(mcounter, gaps) ==
    LET hot_main == Keys(most_common(mcounter, 12))
        overdue_main == Keys(Take(SortedByValue(gaps.main, TRUE), 12))
    IN  SortedSet(Take(hot_main, 6) \o Take(overdue_main, 6))

\* candidate_main = sorted(set(hot_main[:6] + overdue_main[:6] + MAIN_RANGE))
candidate_main(mcounter, gaps) ==
    LET hot_main == Keys(most_common(mcounter, 12))
        overdue_main == Keys(Take(SortedByValue(gaps.main, TRUE), 12))
    IN  SortedSet(Take(hot_main, 6) \o Take(overdue_main, 6) \o MAIN_RANGE)

\* candidate_stars = sorted(set(hot_stars[:3] + overdue_stars[:3] + STAR_RANGE))
candidate_stars(scounter, gaps) ==
    LET hot_stars == Keys(most_common(scounter, 6))
        overdue_stars == Keys(Take(SortedByValue(gaps.star, TRUE), 6))
    IN  SortedSet(Take(hot_stars, 3) \o Take(overdue_stars, 3) \o STAR_RANGE)

\* the else branch of build_line, "AI Mode (Blend)"
BlendLine(mcounter, scounter, gaps, rnd, c) ==
    [main |-> sorted(sample(candidate_main(mcounter, gaps), 5, rnd, c)),
     stars |-> sorted(sample(candidate_stars(scounter, gaps), 2, rnd, c + 5)),
     calls |-> 7]

\* build_line with the overdue branch sampling by gap weight instead of
\* taking the largest gaps
build_line_overdue_sampled(strat, mcounter, scounter, ds, rnd, c) ==
    IF strat = "Hot Numbers"
    THEN WeightedLine(mcounter, scounter, FALSE, rnd, c)
    ELSE IF strat = "Cold Numbers"
    THEN WeightedLine(mcounter, scounter, TRUE, rnd, c)
    ELSE IF strat = "Overdue (Longest gap)"
    THEN WeightedLine(overdue_gaps(ds).main, overdue_gaps(ds).star, FALSE, rnd, c)
    ELSE IF strat = "Balanced Picks"
    THEN BalancedLine(rnd, c)
    ELSE BlendLine(mcounter, scounter, overdue_gaps(ds), rnd, c)

\* build_line; rnd is the stream of the random source and c the number of
\* the first call it makes to it; calls is how many calls it made
build_line(strat, mcounter, scounter, ds, rnd, c) ==
    IF strat = "Hot Numbers"
    THEN WeightedLine(mcounter, scounter, FALSE, rnd, c)
    ELSE IF strat = "Cold Numbers"
    THEN WeightedLine(mcounter, scounter, TRUE, rnd, c)
    ELSE IF strat = "Overdue (Longest gap)"
    THEN OverdueLine(overdue_gaps(ds))
    ELSE IF strat = "Balanced Picks"
    THEN BalancedLine(rnd, c)
    ELSE BlendLine(mcounter, scounter, overdue_gaps(ds), rnd, c)

\* the arguments of build_line as the call leaves them: the weighted
\* branches hand the tables to _weighted_unique_pick, the other branches
\* only read them (most_common, sorted and set build new lists)
build_line_args(strat, mcounter, scounter, ds, rnd, c) ==
    IF strat \in {"Hot Numbers", "Cold Numbers"}
    THEN LET invert == (strat = "Cold Numbers")
             main_pick == PickObjects(mcounter, 5, invert, rnd, c)
             star_pick == PickObjects(scounter, 2, invert, rnd,
                                      c + Min2(5, Len(mcounter)))
         IN  [main_counts |-> main_pick.counter,
              star_counts |-> star_pick.counter,
              draws |-> ds]
    ELSE [main_counts |-> mcounter, star_counts |-> scounter, draws |-> ds]

\* one reason string: its kind and the numbers it reports
Reason(kind, a, b, c) == [kind |-> kind, a |-> a, b |-> b, c |-> c]

\* sum(1 for a, b in zip(xs, xs[1:]) if b - a == 1)
SequentialPairs(xs) ==
    Cardinality({i \in 1..(Len(xs) - 1) : xs[i + 1] - xs[i] = 1})

\* len([n for n in xs if n in S])
Hits(xs, S) == Cardinality({i \in 1..Len(xs) : xs[i] \in S})

\* explanations.insert(0, ...) for the three strategies that have a sentence
StrategySentence(strat) ==
    IF strat = "Balanced Picks" THEN <<Reason("balanced", 0, 0, 0)>>
    ELSE IF strat = "Overdue (Longest gap)" THEN <<Reason("overdue", 0, 0, 0)>>
    ELSE IF strat = "Cold Numbers" THEN <<Reason("cold", 0, 0, 0)>>
    ELSE <<>>

\* LineScore with the hot bonus granted from one hit on
LineScore_one_hot(low_count, spread, sequential_pairs, hot_hits, cold_hits, overdue_hits) ==
    LET raw_score == 55
            + (IF 2 <= low_count /\ low_count <= 3 THEN 12 ELSE 0)
            + (IF spread >= 25 THEN 10 ELSE 0)
            + (IF sequential_pairs = 0 THEN 8 ELSE 0)
            + (IF hot_hits >= 1 THEN 8 ELSE 0)
            + (IF cold_hits >= 1 THEN 4 ELSE 0)
            + (IF overdue_hits >= 1 THEN 6 ELSE 0)
    IN  Min2(100, Max2(0, raw_score))

\* the score of explain_line from its six signals
LineScore(low_count, spread, sequential_pairs, hot_hits, cold_hits, overdue_hits) ==
    LET raw_score == 55
            + (IF 2 <= low_count /\ low_count <= 3 THEN 12 ELSE 0)
            + (IF spread >= 25 THEN 10 ELSE 0)
            + (IF sequential_pairs = 0 THEN 8 ELSE 0)
            + (IF hot_hits >= 2 THEN 8 ELSE 0)
            + (IF cold_hits >= 1 THEN 4 ELSE 0)
            + (IF overdue_hits >= 1 THEN 6 ELSE 0)
    IN  Min2(100, Max2(0, raw_score))

\* LineExplanations with the strategy's sentence appended instead of
\* inserted in front
LineExplanations_appended(strat, hot_hits, overdue_hits, spread, low_count, sequential_pairs, safe_stars, scounter) ==
    LET base == <<Reason("hits", hot_hits, overdue_hits, 0),
                  Reason("spread", spread, low_count, 5 - low_count),
                  IF sequential_pairs = 0 THEN Reason("nocluster", 0, 0, 0)
                  ELSE Reason("pairs", sequential_pairs, 0, 0)>>
        star_part ==
            IF safe_stars # <<>>
            THEN <<Reason("stars",
                          Hits(safe_stars, Range(Keys(most_common(scounter, 4)))),
                          0, 0)>>
            ELSE <<>>
    IN  Take(base \o StrategySentence(strat) \o star_part, 4)

\* LineExplanations without the cut to four reasons
LineExplanations_uncut(strat, hot_hits, overdue_hits, spread, low_count, sequential_pairs, safe_stars, scounter) ==
    LET base == <<Reason("hits", hot_hits, overdue_hits, 0),
                  Reason("spread", spread, low_count, 5 - low_count),
                  IF sequential_pairs = 0 THEN Reason("nocluster", 0, 0, 0)
                  ELSE Reason("pairs", sequential_pairs, 0, 0)>>
        star_part ==
            IF safe_stars # <<>>
            THEN <<Reason("stars",
                          Hits(safe_stars, Range(Keys(most_common(scounter, 4)))),
                          0, 0)>>
            ELSE <<>>
    IN  StrategySentence(strat) \o base \o star_part

\* the reasons of explain_line: the three base sentences, the strategy's
\* sentence inserted in front, the star sentence appended, the first four kept
LineExplanations(strat, hot_hits, overdue_hits, spread, low_count, sequential_pairs, safe_stars, scounter) ==
    LET base == <<Reason("hits", hot_hits, overdue_hits, 0),
                  Reason("spread", spread, low_count, 5 - low_count),
                  IF sequential_pairs = 0 THEN Reason("nocluster", 0, 0, 0)
                  ELSE Reason("pairs", sequential_pairs, 0, 0)>>
        star_part ==
            IF safe_stars # <<>>
            THEN <<Reason("stars",
                          Hits(safe_stars, Range(Keys(most_common(scounter, 4)))),
                          0, 0)>>
            ELSE <<>>
    IN  Take(StrategySentence(strat) \o base \o star_part, 4)

\* explain_line: [raised, score, explanations]; raised names the exception
\* that escapes it, "" when it returns
explain_line(main_nums, star_nums, mcounter, scounter, mgap, strat) ==
    IF SafeIntListError(main_nums) # ""
    THEN [raised |-> SafeIntListError(main_nums), score |-> 0, explanations |-> <<>>]
    ELSE IF SafeIntListError(star_nums) # ""
    THEN [raised |-> SafeIntListError(star_nums), score |-> 0, explanations |-> <<>>]
    ELSE
    LET safe_main_nums == sorted(_safe_int_list(main_nums))
        safe_stars == sorted(_safe_int_list(star_nums))
    IN  IF Len(safe_main_nums) < 2
        THEN [raised |-> "", score |-> 0,
              explanations |-> <<Reason("notenough", 0, 0, 0)>>]
        ELSE
        LET hot_main == Range(Keys(most_common(mcounter, 10)))
            cold_main == Range(Keys(Take(SortedByValue(mcounter, FALSE), 10)))
            overdue_main == Range(Keys(Take(SortedByValue(mgap, TRUE), 10)))
            hot_hits == Hits(safe_main_nums, hot_main)
            cold_hits == Hits(safe_main_nums, cold_main)
            overdue_hits == Hits(safe_main_nums, overdue_main)
            low_count == Cardinality({i \in 1..Len(safe_main_nums) :
                                        safe_main_nums[i] <= 25})
            spread == SeqMax(safe_main_nums) - SeqMin(safe_main_nums)
            sequential_pairs == SequentialPairs(safe_main_nums)
        IN  [raised |-> "",
             score |-> LineScore(low_count, spread, sequential_pairs,
                                 hot_hits, cold_hits, overdue_hits),
             explanations |-> LineExplanations(strat, hot_hits, overdue_hits,
                                 spread, low_count, sequential_pairs,
                                 safe_stars, scounter)]

-----------------------------------------------------------------------------
(* src/src/core/draws.py *)

(* A date value of a draw payload is a record:                             *)
(*   k = "none"  None, or the key is missing                               *)
(*   k = "empty" the empty string                                          *)
(*   k = "text"  a text that is no date                                    *)
(*   k = "date"  the text "a<sep>b<sep>c", sep "-" or "/", followed by a   *)
(*               time part "T00:00:00Z" when time is TRUE                  *)
NoDate == [k |-> "none", sep |-> "", a |-> 0, b |-> 0, c |-> 0, time |-> FALSE]
EmptyText == [k |-> "empty", sep |-> "", a |-> 0, b |-> 0, c |-> 0, time |-> FALSE]
OtherText == [k |-> "text", sep |-> "", a |-> 0, b |-> 0, c |-> 0, time |-> FALSE]
DateText(sep, a, b, c, time) == [k |-> "date", sep |-> sep, a |-> a, b |-> b, c |-> c, time |-> time]

\* a numbers / stars value of a payload: None (or missing), or a list
NoList == [none |-> TRUE, items |-> <<>>]
List(items) == [none |-> FALSE, items |-> items]

DRAW_DATE_KEYS == <<"date", "drawDate", "draw_date">>

IsLeap(y) == (y % 4 = 0 /\ y % 100 # 0) \/ y % 400 = 0

DaysInMonth(y, m) ==
    IF m = 2 THEN (IF IsLeap(y) THEN 29 ELSE 28)
    ELSE IF m \in {4, 6, 9, 11} THEN 30 ELSE 31

\* date(y, m, d) exists
ValidDate(y, m, d) ==
    /\ y \in 1..9999
    /\ m \in 1..12
    /\ d \in 1..DaysInMonth(y, m)

RECURSIVE DaysBeforeMonth(_, _)
DaysBeforeMonth(y, m) ==
    IF m = 1 THEN 0 ELSE DaysBeforeMonth(y, m - 1) + DaysInMonth(y, m - 1)

\* date(y, m, d).toordinal(): 0001-01-01 is day 1
toordinal(y, m, d) ==
    (y - 1) * 365 + ((y - 1) \div 4) - ((y - 1) \div 100) + ((y - 1) \div 400)
    + DaysBeforeMonth(y, m) + d

\* a parsed date, or None
NoneDate == [ok |-> FALSE, y |-> 0, m |-> 0, d |-> 0]
DateOf(y, m, d) ==
    IF ValidDate(y, m, d) THEN [ok |-> TRUE, y |-> y, m |-> m, d |-> d]
    ELSE NoneDate

\* parse_date_like: fromisoformat reads "y-m-d" with or without a time
\* part, strptime "%Y-%m-%d" reads "y-m-d" and "%d/%m/%Y" reads "d/m/y"
parse_date_like(value) ==
    IF value.k \in {"none", "empty", "text"} THEN NoneDate
    ELSE IF value.sep = "-" THEN DateOf(value.a, value.b, value.c)
    ELSE IF value.sep = "/" /\ ~value.time THEN DateOf(value.c, value.b, value.a)
    ELSE NoneDate

\* draw.get(key)
DateField(draw, key) ==
    IF key = "date" THEN draw.date
    ELSE IF key = "drawDate" THEN draw.drawDate
    ELSE draw.draw_date

\* float("-inf"): a key below the timestamp of every date
NegInfinity == 0 - 719163

\* datetime(y, m, d, tzinfo=utc).timestamp(), counted in days since
\* 1970-01-01 (86400 seconds each)
timestamp(parsed) == toordinal(parsed.y, parsed.m, parsed.d) - 719163

\* parse_draw_timestamp reading the "date" key alone
parse_draw_timestamp_date_key_only(draw) ==
    IF parse_date_like(draw.date).ok THEN timestamp(parse_date_like(draw.date))
    ELSE NegInfinity

\* parse_draw_timestamp: the timestamp of the first key that parses
parse_draw_timestamp(draw) ==
    LET parses == {i \in 1..Len(DRAW_DATE_KEYS) :
                      parse_date_like(DateField(draw, DRAW_DATE_KEYS[i])).ok}
    IN  IF parses = {} THEN NegInfinity
        ELSE LET first == CHOOSE i \in parses : \A j \in parses : i <= j
             IN  timestamp(parse_date_like(DateField(draw, DRAW_DATE_KEYS[first])))

\* draw_date_text: the text of the first key whose value is neither None
\* nor "", "" when there is none; str() of a text is the text
draw_date_text(draw) ==
    LET filled == {i \in 1..Len(DRAW_DATE_KEYS) :
                      DateField(draw, DRAW_DATE_KEYS[i]).k \notin {"none", "empty"}}
    IN  IF filled = {} THEN EmptyText
        ELSE LET first == CHOOSE i \in filled : \A j \in filled : i <= j
             IN  DateField(draw, DRAW_DATE_KEYS[first])

\* the loop of normalize_int_list over the items
RECURSIVE NormalizeItems(_)
NormalizeItems(items) ==
    IF items = <<>> THEN <<>>
    ELSE LET c == int(Head(items))
         IN  IF c.err = "" THEN <<c.v>> \o NormalizeItems(Tail(items))
             ELSE NormalizeItems(Tail(items))

\* normalize_int_list: [raised, list]; `values or []` turns None into []
normalize_int_list(values) ==
    LET items == IF values.none THEN <<>> ELSE values.items
    IN  IF SafeIntListError(items) # ""
        THEN [raised |-> SafeIntListError(items), list |-> <<>>]
        ELSE [raised |-> "", list |-> NormalizeItems(items)]

\* normalize_draw_dict: [raised, draw]; a copy of the draw with its numbers
\* and stars replaced by lists of ints
normalize_draw_dict(draw) ==
    LET numbers == normalize_int_list(draw.numbers)
        star_list == normalize_int_list(draw.stars)
    IN  IF numbers.raised # "" THEN [raised |-> numbers.raised, draw |-> draw]
        ELSE IF star_list.raised # "" THEN [raised |-> star_list.raised, draw |-> draw]
        ELSE [raised |-> "",
              draw |-> [draw EXCEPT !.numbers = numbers.list,
                                    !.stars = star_list.list]]

\* the result of draw_from_payload: None, or a Draw; the payloads carry no
\* jackpot key and no draw number, and no source is given
NoDraw == [none |-> TRUE, draw_date |-> NoneDate, numbers |-> <<>>, stars |-> <<>>, jackpot |-> "None", source |-> "None", source_draw_id |-> "None"]

\* draw_from_payload: [raised, draw]
draw_from_payload(draw) ==
    LET draw_date == parse_date_like(draw_date_text(draw))
        numbers == normalize_int_list(draw.numbers)
        star_list == normalize_int_list(draw.stars)
    IN  IF ~draw_date.ok THEN [raised |-> "", draw |-> NoDraw]
        ELSE IF numbers.raised # "" THEN [raised |-> numbers.raised, draw |-> NoDraw]
        ELSE IF star_list.raised # "" THEN [raised |-> star_list.raised, draw |-> NoDraw]
        ELSE [raised |-> "",
              draw |-> [none |-> FALSE, draw_date |-> draw_date,
                        numbers |-> sorted(numbers.list),
                        stars |-> sorted(star_list.list),
                        jackpot |-> "None", source |-> "None",
                        source_draw_id |-> "None"]]

\* sorted(normalized, key=parse_draw_timestamp, reverse=True): a stable
\* sort, draws of equal timestamp keep their order
RECURSIVE InsertByTimestamp(_, _)
InsertByTimestamp(ordered, draw) ==
    IF ordered = <<>> THEN <<draw>>
    ELSE IF parse_draw_timestamp(Head(ordered)) < parse_draw_timestamp(draw)
    THEN <<draw>> \o ordered
    ELSE <<Head(ordered)>> \o InsertByTimestamp(Tail(ordered), draw)

RECURSIVE SortedByTimestamp(_)
SortedByTimestamp(ds) ==
    IF ds = <<>> THEN <<>>
    ELSE InsertByTimestamp(SortedByTimestamp(SubSeq(ds, 1, Len(ds) - 1)),
                           ds[Len(ds)])

\* prepare_draws: [raised, draws]
prepare_draws(ds, n) ==
    LET results == [i \in 1..Len(ds) |-> normalize_draw_dict(ds[i])]
        failed == {i \in 1..Len(ds) : results[i].raised # ""}
    IN  IF failed # {}
        THEN [raised |-> results[CHOOSE i \in failed : \A j \in failed : i <= j].raised,
              draws |-> <<>>]
        ELSE LET normalized == [i \in 1..Len(ds) |-> results[i].draw]
                 ordered == SortedByTimestamp(normalized)
             IN  [raised |-> "", draws |-> Take(ordered, n)]

-----------------------------------------------------------------------------
(* src/src/core/tickets.py *)

\* sum(1 for value in values if value in winning)
RECURSIVE CountIn(_, _)
CountIn(values, winning) ==
    IF values = <<>> THEN 0
    ELSE (IF Head(values) \in winning THEN 1 ELSE 0) + CountIn(Tail(values), winning)

\* count_line_matches with the mains and stars checked against all the
\* winning values together
count_line_matches_pooled(line, winning_main_set, winning_star_set) ==
    CountIn(line.main, winning_main_set \cup winning_star_set)
    + CountIn(line.stars, winning_main_set \cup winning_star_set)

count_line_matches(line, winning_main_set, winning_star_set) ==
    CountIn(line.main, winning_main_set) + CountIn(line.stars, winning_star_set)

-----------------------------------------------------------------------------
(* src/src/draw_dates.py; a date is its ordinal, 0001-01-01 being day 1 *)

\* date.max.toordinal(), 9999-12-31
MAXORDINAL == 3652059

\* date.weekday(): Monday is 0
weekday(d) == (d + 6) % 7

is_draw_day(d) == weekday(d) \in {1, 4}

\* next_draw_date: [raised, date]; cursor += timedelta(days=1) raises
\* OverflowError past date.max
RECURSIVE next_draw_date(_)
next_draw_date(cursor) ==
    IF is_draw_day(cursor) THEN [raised |-> "", date |-> cursor]
    ELSE IF cursor + 1 > MAXORDINAL THEN [raised |-> "OverflowError", date |-> cursor]
    ELSE next_draw_date(cursor + 1)

\* the while loop of upcoming_draw_dates: [raised, draws]
RECURSIVE UpcomingLoop(_, _, _)
UpcomingLoop(cursor, found, total_draws) ==
    IF Len(found) >= total_draws THEN [raised |-> "", draws |-> found]
    ELSE LET appended == IF is_draw_day(cursor) THEN Append(found, cursor) ELSE found
         IN  IF cursor + 1 > MAXORDINAL
             THEN [raised |-> "OverflowError", draws |-> <<>>]
             ELSE UpcomingLoop(cursor + 1, appended, total_draws)

upcoming_draw_dates(start, n_weeks) ==
    LET total_draws == Max2(1, n_weeks) * 2
        first == next_draw_date(start)
    IN  IF first.raised # "" THEN [raised |-> first.raised, draws |-> <<>>]
        ELSE UpcomingLoop(first.date, <<>>, total_draws)

-----------------------------------------------------------------------------
(* src/src/services/ticket_store.py *)

(* An item of a stored list is a record:                                   *)
(*   k = "dict"   a ticket, a JSON object with the given id                *)
(*   k = "other"  a JSON value that is no object                           *)
Ticket(id) == [k |-> "dict", id |-> id]
NonDict == [k |-> "other", id |-> 0]

(* A text is a record:                                                     *)
(*   k = "empty"      the empty string                                     *)
(*   k = "blank"      white space only                                     *)
(*   k = "null"       the text "null"                                      *)
(*   k = "garbage"    a text that is not JSON                              *)
(*   k = "json_other" the JSON text of a value that is no list             *)
(*   k = "json_list"  the JSON text of the list items                      *)
Text(kind) == [k |-> kind, items |-> <<>>]
JsonListText(items) == [k |-> "json_list", items |-> items]

\* localStorage.getItem of a key that was never set: null
Absent == [k |-> "absent", items |-> <<>>]

\* what _streamlit_js_eval returns: None, a value that is no string, or a text
ResponseNone == [k |-> "none", items |-> <<>>]
ResponseNonStr == [k |-> "nonstr", items |-> <<>>]

\* serialize_tickets: json.dumps of the list; the dicts of the app hold
\* texts and lists of ints, which json.dumps always writes
serialize_tickets(tickets) == JsonListText(tickets)

\* deserialize_tickets: the dicts of the list the text holds, [] for a text
\* that is no JSON or no list
deserialize_tickets(text) ==
    IF text.k = "json_list" THEN SelectSeq(text.items, LAMBDA item : item.k = "dict")
    ELSE <<>>

\* response.strip() is non-empty
NonBlank(text) == text.k \notin {"empty", "blank"}

WarnUnavailable == "Ticket storage is unavailable in this browser session. Starting with empty tickets."
WarnCorrupted == "Saved ticket data looks corrupted. Starting with empty tickets."
WarnNotSaved == "Could not save tickets to browser storage. They may reset after refresh."

\* load_tickets_from_localstorage after the response of the bridge:
\* [tickets, warned]; warned is the set of warnings handed to _warn_once
load_tickets_from_localstorage(response) ==
    IF response.k \in {"none", "empty", "null"}
    THEN [tickets |-> <<>>, warned |-> {}]
    ELSE IF response.k = "nonstr"
    THEN [tickets |-> <<>>, warned |-> {WarnUnavailable}]
    ELSE LET tickets == deserialize_tickets(response)
         IN  [tickets |-> tickets,
              warned |-> IF NonBlank(response) /\ tickets = <<>>
                         THEN {WarnCorrupted} ELSE {}]

\* the responses the bridge can give to localStorage.getItem: None when the
\* component raises or has no value yet, a value that is no string, or the
\* item (null comes back as None)
GetItemResponses(item) ==
    {ResponseNone, ResponseNonStr} \cup (IF item.k = "absent" THEN {} ELSE {item})

\* the ways a localStorage.setItem call can go: the script runs and the
\* component returns a value, the script runs and the component returns
\* None, the component raises before the script runs
SetItemOutcomes == {"returned", "none", "raised"}

\* save_tickets_to_localstorage under an outcome of the bridge: [item,
\* warned], item being the item of the browser afterwards
save_tickets_to_localstorage(tickets, item, outcome) ==
    [item |-> IF outcome = "raised" THEN item ELSE serialize_tickets(tickets),
     warned |-> IF outcome = "returned" THEN {} ELSE {WarnNotSaved}]

-----------------------------------------------------------------------------
(* The histories and lines the model ranges over *)

Draw(numbers, star_list) == [numbers |-> IntList(numbers), stars |-> IntList(star_list)]

\* prepared draws; the third is a dirty record: it repeats a number, has more
\* than five numbers and a single star, and carries values outside 1..50 and
\* 1..12
DrawPool ==
    { Draw(<<1, 2, 3, 4, 5>>, <<1, 2>>),
      Draw(<<10, 20, 30, 40, 50>>, <<11, 12>>),
      Draw(<<5, 7, 7, 26, 27, 49, 51>>, <<13>>) }

Histories == UNION {[1..n -> DrawPool] : n \in 0..MaxDraws}

\* lines handed to explain_line directly
ProbeLines ==
    { [main |-> <<>>, stars |-> <<>>],
      [main |-> <<PyInt(7)>>, stars |-> <<PyInt(2), PyInt(11)>>],
      [main |-> <<PyText, PyNone, PyInt(3), PyNan>>, stars |-> <<PyInt(1)>>],
      [main |-> <<PyStr(2), PyFloat(35)>>, stars |-> <<PyText>>],
      [main |-> <<PyInt(50), PyInt(1)>>, stars |-> <<>>],
      [main |-> IntList(<<6, 10, 20, 30, 50>>), stars |-> IntList(<<2, 11>>)],
      [main |-> IntList(<<1, 2, 3, 4, 5, 6>>), stars |-> IntList(<<1, 12>>)],
      [main |-> <<PyInf, PyInt(1), PyInt(2)>>, stars |-> IntList(<<1, 2>>)],
      [main |-> IntList(<<7, 26, 40>>), stars |-> <<PyInf>>] }

-----------------------------------------------------------------------------
(* The generate pass of app.py *)

\* the "Number of lines" the user set
line_count == MaxLines

\* no prepare_draws call in progress
DrawsIdle ==
    /\ payload = <<>>
    /\ history_n = 0
    /\ prepared = <<>>
    /\ draw_arg = <<>>
    /\ draw_result = NoDraw

\* no count_line_matches call in progress
TicketsIdle ==
    /\ ticket_line = [main |-> <<>>, stars |-> <<>>]
    /\ winning_mains = {}
    /\ winning_stars = {}
    /\ matches = 0

\* no upcoming_draw_dates call in progress
DatesIdle == from_date = 0 /\ weeks = 0 /\ upcoming = <<>>

\* no browser session in progress
StorageIdle ==
    /\ session_tickets = NoList
    /\ local_storage = Absent
    /\ last_saved = NoList
    /\ ticket_storage_warnings = {}
    /\ read_response = ResponseNone
    /\ storage_reads = 0
    /\ stored_at_start = {}
    /\ deleted_ids = {}
    /\ cleared = FALSE
    /\ saved_new = FALSE
    /\ next_ticket_id = 1
    /\ sessions = 0

\* the generate pass before its first statement
GenerateStart ==
    /\ pc = "start"
    /\ main_counter = <<>>
    /\ star_counter = <<>>
    /\ main_gap = <<>>
    /\ star_gap = <<>>
    /\ nums = <<>>
    /\ stars = <<>>
    /\ generated_lines = <<>>
    /\ arg_main = <<>>
    /\ arg_stars = <<>>
    /\ arg_strategy = ""
    /\ score = 0
    /\ explanations = <<>>
    /\ raised = ""
    /\ rnd_stream = <<>>
    /\ rnd_calls = 0
    /\ attempts = 0
    /\ insight_hot_main = <<>>
    /\ insight_hot_star = <<>>
    /\ insight_cold_main = <<>>
    /\ insight_cold_star = <<>>

\* a generate pass with "Allow numbers from most recent draw" ticked
Init ==
    /\ draws \in Histories
    /\ strategy \in Range(STRATEGIES)
    /\ include_last_draw = TRUE
    /\ topn = 5
    /\ StorageIdle
    /\ GenerateStart
    /\ DrawsIdle
    /\ TicketsIdle
    /\ DatesIdle

\* compute_insights(draws, topn): the frequency and gap tables of the window
\* and the hot and cold lists of the page
ComputeInsights ==
    /\ pc = "start"
    /\ main_counter' = frequency_counter(draws).main
    /\ star_counter' = frequency_counter(draws).star
    /\ main_gap' = overdue_gaps(draws).main
    /\ star_gap' = overdue_gaps(draws).star
    /\ insight_hot_main' = top_n(frequency_counter(draws).main, topn, TRUE)
    /\ insight_hot_star' = top_n(frequency_counter(draws).star, Min2(topn, 3), TRUE)
    /\ insight_cold_main' = top_n(frequency_counter(draws).main, topn, FALSE)
    /\ insight_cold_star' = top_n(frequency_counter(draws).star, Min2(topn, 3), FALSE)
    /\ pc' = "ready"
    /\ UNCHANGED <<draws, strategy, nums, stars, generated_lines,
                   arg_main, arg_stars, arg_strategy, score, explanations, raised,
                   rnd_stream, rnd_calls, include_last_draw, attempts, topn,
                   library_vars>>

\* last_draw_numbers = set(insights["recent"]["numbers"])
last_draw_numbers == Range(recent_draw_summary(draws).numbers)

\* the condition of the retry loop letting an eleventh retry through
RetryCondition_eleven ==
    /\ ~include_last_draw
    /\ Range(nums) \cap last_draw_numbers # {}
    /\ attempts <= 10

\* the condition of the retry loop
RetryCondition ==
    /\ ~include_last_draw
    /\ Range(nums) \cap last_draw_numbers # {}
    /\ attempts < 10

\* one build_line call: the line it returns, the calls it makes to the
\* random source and what it leaves in its arguments; the first read of the
\* random source is where its seed, hence its stream, shows
BuildEffect ==
    \E rnd \in (IF rnd_stream = <<>> THEN RandomStreams ELSE {rnd_stream}) :
        LET line == build_line(strategy, main_counter, star_counter, draws,
                               rnd, rnd_calls + 1)
            after == build_line_args(strategy, main_counter, star_counter, draws,
                                     rnd, rnd_calls + 1)
        IN  /\ nums' = line.main
            /\ stars' = line.stars
            /\ rnd_stream' = IF line.calls = 0 THEN rnd_stream ELSE rnd
            /\ rnd_calls' = rnd_calls + line.calls
            /\ main_counter' = after.main_counts
            /\ star_counter' = after.star_counts
            /\ draws' = after.draws

\* the build_line call that opens an iteration of the line loop
BuildLine ==
    /\ pc \in {"ready", "explained"}
    /\ Len(generated_lines) < line_count
    /\ BuildEffect
    /\ attempts' = 0
    /\ pc' = "built"
    /\ UNCHANGED <<strategy, main_gap, star_gap, generated_lines, arg_main,
                   arg_stars, arg_strategy, score, explanations, raised,
                   include_last_draw, insights_vars, library_vars>>

\* one turn of the retry loop: build_line again and count the attempt
RetryBuild ==
    /\ pc = "built"
    /\ RetryCondition
    /\ BuildEffect
    /\ attempts' = attempts + 1
    /\ pc' = "built"
    /\ UNCHANGED <<strategy, main_gap, star_gap, generated_lines, arg_main,
                   arg_stars, arg_strategy, score, explanations, raised,
                   include_last_draw, insights_vars, library_vars>>

\* the record of an explain_line call and of its outcome
ExplainEffect(m, s, strat, done) ==
    LET r == explain_line(m, s, main_counter, star_counter, main_gap, strat)
    IN  /\ arg_main' = m
        /\ arg_stars' = s
        /\ arg_strategy' = strat
        /\ raised' = r.raised
        /\ score' = r.score
        /\ explanations' = r.explanations
        /\ pc' = IF r.raised # "" THEN "raised" ELSE done

\* the explain_line call of the line loop and the append that follows it
ExplainLine ==
    /\ pc = "built"
    /\ ~RetryCondition
    /\ ExplainEffect(IntList(nums), IntList(stars), strategy, "explained")
    /\ generated_lines' =
          IF raised' # "" THEN generated_lines
          ELSE Append(generated_lines, [main |-> nums, stars |-> stars])
    /\ UNCHANGED <<draws, strategy, main_counter, star_counter,
                   main_gap, star_gap, nums, stars, rnd_stream, rnd_calls,
                   include_last_draw, attempts, insights_vars, library_vars>>

\* explain_line called on a line that did not come from build_line
ExplainCall ==
    /\ pc = "ready"
    /\ generated_lines = <<>>
    /\ \E line \in ProbeLines :
         ExplainEffect(line.main, line.stars, strategy, "probed")
    /\ UNCHANGED <<draws, strategy, main_counter, star_counter,
                   main_gap, star_gap, nums, stars, generated_lines,
                   rnd_stream, rnd_calls, include_last_draw, attempts,
                   insights_vars, library_vars>>

Next == ComputeInsights \/ BuildLine \/ ExplainLine \/ ExplainCall

Spec == Init /\ [][Next]_vars

\* windows of a pass that gets past `if not draws: st.stop()`: those of one
\* draw, and those of two draws whose newest draw is the first of the pool
RetryHistories ==
    {h \in Histories :
        \/ Len(h) = 1
        \/ Len(h) = 2 /\ h[1] = Draw(<<1, 2, 3, 4, 5>>, <<1, 2>>)}

\* a generate pass with "Allow numbers from most recent draw" unticked
RetryInit ==
    /\ draws \in RetryHistories
    /\ strategy \in Range(STRATEGIES)
    /\ include_last_draw = FALSE
    /\ topn = 5
    /\ StorageIdle
    /\ GenerateStart
    /\ DrawsIdle
    /\ TicketsIdle
    /\ DatesIdle

RetryNext == ComputeInsights \/ BuildLine \/ RetryBuild \/ ExplainLine

RetrySpec == RetryInit /\ [][RetryNext]_vars

\* the insight depths the page is rendered with: the slider's 3..10, and
\* the depths below it that compute_insights accepts
InsightDepths == 0..10

\* compute_insights on a window at any insight depth
InsightsInit ==
    /\ draws \in Histories
    /\ topn \in InsightDepths
    /\ StorageIdle
    /\ strategy = "AI Mode (Blend)"
    /\ include_last_draw = TRUE
    /\ GenerateStart
    /\ DrawsIdle
    /\ TicketsIdle
    /\ DatesIdle

InsightsNext == ComputeInsights

InsightsSpec == InsightsInit /\ [][InsightsNext]_vars

-----------------------------------------------------------------------------
(* prepare_draws on the payload of the draws API *)

Payload(date, drawDate, draw_date, numbers, star_list) == [date |-> date, drawDate |-> drawDate, draw_date |-> draw_date, numbers |-> numbers, stars |-> star_list]

\* draws as the API may deliver them: the date under any of the three keys
\* and in any of the three formats, missing or unreadable; values that are
\* ints, numeric texts, floats, None, other text, nan and infinity
PayloadPool ==
    { Payload(DateText("-", 2026, 3, 3, FALSE), NoDate, NoDate,
              List(<<PyInt(1), PyStr(2), PyInt(3)>>), List(<<PyInt(1), PyStr(2)>>)),
      Payload(NoDate, DateText("/", 1, 3, 2026, FALSE), NoDate,
              List(IntList(<<5, 6, 7>>)), List(IntList(<<3, 4>>))),
      Payload(NoDate, NoDate, DateText("-", 2026, 3, 7, TRUE),
              List(IntList(<<8, 9, 10>>)), List(IntList(<<5, 6>>))),
      Payload(OtherText, NoDate, NoDate,
              List(<<PyNone, PyText, PyFloat(30), PyNan, PyInt(4)>>), NoList),
      Payload(EmptyText, DateText("-", 2026, 2, 30, FALSE),
              DateText("/", 3, 4, 2026, FALSE),
              List(IntList(<<11>>)), List(<<>>)),
      Payload(DateText("-", 2026, 3, 5, FALSE), NoDate, NoDate,
              List(<<PyInt(12), PyInf>>), List(IntList(<<7, 8>>))) }

Payloads == UNION {[1..n -> PayloadPool] : n \in 0..MaxPayload}

DrawsInit ==
    /\ payload \in Payloads
    /\ history_n \in 0..MaxPayload
    /\ prepared = <<>>
    /\ draw_arg = <<>>
    /\ draw_result = NoDraw
    /\ draws = <<>>
    /\ strategy = ""
    /\ include_last_draw = TRUE
    /\ topn = 5
    /\ StorageIdle
    /\ GenerateStart
    /\ TicketsIdle
    /\ DatesIdle

\* prepare_draws(payload, history_n)
PrepareDraws ==
    /\ pc = "start"
    /\ LET r == prepare_draws(payload, history_n)
       IN  /\ raised' = r.raised
           /\ prepared' = r.draws
           /\ pc' = IF r.raised # "" THEN "failed" ELSE "returned"
    /\ UNCHANGED <<payload, history_n, draw_arg, draw_result, tickets_vars,
                   dates_vars, storage_vars, generate_vars>>

\* draw_from_payload(item) on an item of the payload, as the loop of
\* HttpDrawsProvider.fetch_draws calls it
DrawFromPayload ==
    /\ pc = "start"
    /\ \E i \in 1..Len(payload) :
         LET r == draw_from_payload(payload[i])
         IN  /\ draw_arg' = <<payload[i]>>
             /\ raised' = r.raised
             /\ draw_result' = r.draw
             /\ pc' = IF r.raised # "" THEN "convert_failed" ELSE "converted"
    /\ UNCHANGED <<payload, history_n, prepared, tickets_vars, dates_vars,
                   storage_vars, generate_vars>>

DrawsNext == PrepareDraws \/ DrawFromPayload

DrawsSpec == DrawsInit /\ [][DrawsNext]_vars

-----------------------------------------------------------------------------
(* count_line_matches on a ticket line and the winning numbers of a draw *)

Line(main, star_list) == [main |-> main, stars |-> star_list]

\* ticket lines: the line of the repository's test, a line whose mains and
\* stars share values with each other and with either winning set, a line
\* with repeated values and the empty line
TicketLines ==
    { Line(<<3, 11, 19, 27, 45>>, <<2, 9>>),
      Line(<<9, 11, 12>>, <<11, 27>>),
      Line(<<11, 11, 42>>, <<9, 9>>),
      Line(<<>>, <<>>) }

TicketsInit ==
    /\ ticket_line \in TicketLines
    /\ winning_mains \in SUBSET {9, 11, 27, 42}
    /\ winning_stars \in SUBSET {9, 11, 12}
    /\ matches = 0
    /\ draws = <<>>
    /\ strategy = ""
    /\ include_last_draw = TRUE
    /\ topn = 5
    /\ StorageIdle
    /\ GenerateStart
    /\ DrawsIdle
    /\ DatesIdle

\* count_line_matches(ticket_line, winning_mains, winning_stars)
CountLineMatches ==
    /\ pc = "start"
    /\ matches' = count_line_matches(ticket_line, winning_mains, winning_stars)
    /\ pc' = "returned"
    /\ UNCHANGED <<ticket_line, winning_mains, winning_stars, raised,
                   draws_vars, dates_vars, storage_vars, generate_vars>>

TicketsNext == CountLineMatches

TicketsSpec == TicketsInit /\ [][TicketsNext]_vars

-----------------------------------------------------------------------------
(* upcoming_draw_dates from a start date *)

\* start dates: the week from Monday 2026-03-02, and the last two weeks of
\* the calendar
StartDates == (739677..739683) \cup ((MAXORDINAL - 13)..MAXORDINAL)

DatesInit ==
    /\ from_date \in StartDates
    /\ weeks \in (-1)..MaxWeeks
    /\ upcoming = <<>>
    /\ draws = <<>>
    /\ strategy = ""
    /\ include_last_draw = TRUE
    /\ topn = 5
    /\ StorageIdle
    /\ GenerateStart
    /\ DrawsIdle
    /\ TicketsIdle

\* upcoming_draw_dates(from_date, weeks)
UpcomingDrawDates ==
    /\ pc = "start"
    /\ LET r == upcoming_draw_dates(from_date, weeks)
       IN  /\ raised' = r.raised
           /\ upcoming' = r.draws
           /\ pc' = IF r.raised # "" THEN "failed" ELSE "returned"
    /\ UNCHANGED <<from_date, weeks, draws_vars, tickets_vars, storage_vars,
                   generate_vars>>

DatesNext == UpcomingDrawDates

DatesSpec == DatesInit /\ [][DatesNext]_vars

-----------------------------------------------------------------------------
(* The ticket list of a browser session and its copy in localStorage *)

\* what the browser may hold when a session starts: nothing, texts that are
\* no ticket list, the empty list, lists of tickets and a list with an item
\* that is no ticket
StoredPool ==
    { Absent,
      Text("garbage"),
      Text("json_other"),
      JsonListText(<<>>),
      JsonListText(<<Ticket(101)>>),
      JsonListText(<<Ticket(101), Ticket(102)>>),
      JsonListText(<<Ticket(101), NonDict>>) }

\* the ids of the tickets of a list
TicketIds(tickets) == {tickets[i].id : i \in 1..Len(tickets)}

\* a new session: st.session_state is empty, the browser keeps its item
SessionStart(item) ==
    /\ session_tickets' = NoList
    /\ ticket_storage_warnings' = {}
    /\ read_response' = ResponseNone
    /\ storage_reads' = 0
    /\ stored_at_start' = TicketIds(deserialize_tickets(item))
    /\ deleted_ids' = {}
    /\ cleared' = FALSE
    /\ saved_new' = FALSE

StorageInit ==
    /\ local_storage \in StoredPool
    /\ session_tickets = NoList
    /\ last_saved = NoList
    /\ ticket_storage_warnings = {}
    /\ read_response = ResponseNone
    /\ storage_reads = 0
    /\ stored_at_start = TicketIds(deserialize_tickets(local_storage))
    /\ deleted_ids = {}
    /\ cleared = FALSE
    /\ saved_new = FALSE
    /\ next_ticket_id = 1
    /\ sessions = 1
    /\ draws = <<>>
    /\ strategy = ""
    /\ include_last_draw = TRUE
    /\ topn = 5
    /\ GenerateStart
    /\ DrawsIdle
    /\ TicketsIdle
    /\ DatesIdle

\* what the storage actions leave alone
OutsideStorage == <<pc, raised, generate_vars, draws_vars, tickets_vars, dates_vars>>

\* the browser is reloaded: a new session over the same localStorage
NewSession ==
    /\ sessions < MaxSessions
    /\ sessions' = sessions + 1
    /\ SessionStart(local_storage)
    /\ UNCHANGED <<local_storage, last_saved, next_ticket_id, OutsideStorage>>

\* _ensure_ticket_state in a run of the script whose session has no
\* "tickets" yet; in every later run it leaves the list alone
EnsureTicketState ==
    /\ session_tickets.none
    /\ \E response \in GetItemResponses(local_storage) :
         LET loaded == load_tickets_from_localstorage(response)
         IN  /\ read_response' = response
             /\ session_tickets' = List(loaded.tickets)
             /\ ticket_storage_warnings' = ticket_storage_warnings \cup loaded.warned
    /\ storage_reads' = storage_reads + 1
    /\ UNCHANGED <<local_storage, last_saved, stored_at_start, deleted_ids,
                   cleared, saved_new, next_ticket_id, sessions, OutsideStorage>>

\* _persist_tickets reading a key the session does not have
_persist_tickets_wrong_key(session) == <<>>

\* the list _persist_tickets hands to save_tickets_to_localstorage:
\* st.session_state.get("tickets", [])
_persist_tickets(session) == IF session.none THEN <<>> ELSE session.items

\* _persist_tickets() once the session's list has become `session`
Persist(session) ==
    \E outcome \in SetItemOutcomes :
        LET saved == save_tickets_to_localstorage(_persist_tickets(session),
                                                  local_storage, outcome)
        IN  /\ last_saved' = List(_persist_tickets(session))
            /\ local_storage' = saved.item
            /\ ticket_storage_warnings' = ticket_storage_warnings \cup saved.warned

\* "Save as Ticket": a ticket with a fresh id is appended and the list is
\* persisted
SaveTicket ==
    /\ ~session_tickets.none
    /\ next_ticket_id <= MaxTickets
    /\ LET session == List(Append(session_tickets.items, Ticket(next_ticket_id)))
       IN  /\ session_tickets' = session
           /\ Persist(session)
    /\ next_ticket_id' = next_ticket_id + 1
    /\ saved_new' = TRUE
    /\ UNCHANGED <<read_response, storage_reads, stored_at_start, deleted_ids,
                   cleared, sessions, OutsideStorage>>

\* "Clear all tickets", shown when the list is not empty
ClearAllTickets ==
    /\ ~session_tickets.none
    /\ session_tickets.items # <<>>
    /\ session_tickets' = List(<<>>)
    /\ Persist(List(<<>>))
    /\ cleared' = TRUE
    /\ UNCHANGED <<read_response, storage_reads, stored_at_start, deleted_ids,
                   saved_new, next_ticket_id, sessions, OutsideStorage>>

\* "Delete ticket" of one ticket of the list: the tickets of its id go
DeleteTicket ==
    /\ ~session_tickets.none
    /\ \E i \in 1..Len(session_tickets.items) :
         LET ticket == session_tickets.items[i]
             session == List(SelectSeq(session_tickets.items,
                                       LAMBDA t : t.id # ticket.id))
         IN  /\ session_tickets' = session
             /\ Persist(session)
             /\ deleted_ids' = deleted_ids \cup {ticket.id}
    /\ UNCHANGED <<read_response, storage_reads, stored_at_start, cleared,
                   saved_new, next_ticket_id, sessions, OutsideStorage>>

StorageNext ==
    NewSession \/ EnsureTicketState \/ SaveTicket \/ ClearAllTickets \/ DeleteTicket

StorageSpec == StorageInit /\ [][StorageNext]_vars

-----------------------------------------------------------------------------
(* Claims about build_line *)

Built == pc = "built"

\* at most k values, all in 1..hi, strictly ascending (hence distinct)
WellFormed(seq, k, hi) ==
    /\ Len(seq) <= k
    /\ \A i \in 1..Len(seq) : seq[i] \in 1..hi
    /\ \A i \in 1..(Len(seq) - 1) : seq[i] < seq[i + 1]

\* C1: for every strategy and every normalized history, build_line returns
\* at most 5 main numbers, all in 1..50, distinct and ascending, and at most
\* 2 stars, all in 1..12, distinct and ascending.
C1_LineWellFormed ==
    Built => WellFormed(nums, 5, 50) /\ WellFormed(stars, 2, 12)

\* C2: for every strategy and every history window, build_line returns
\* exactly 5 main numbers and exactly 2 stars.
C2_ExactCounts ==
    Built => Len(nums) = 5 /\ Len(stars) = 2

\* C3: "Balanced Picks" returns exactly 5 main numbers, exactly one in each
\* of 1..10, 11..20, 21..30, 31..40, 41..50, and exactly 2 stars, one in 1..6
\* and one in 7..12, for every history and every outcome of the random source.
C3_BalancedOnePerDecade ==
    (Built /\ strategy = "Balanced Picks") =>
        /\ Len(nums) = 5
        /\ \A d \in 0..4 :
             Cardinality({i \in 1..Len(nums) :
                            nums[i] \in (10 * d + 1)..(10 * d + 10)}) = 1
        /\ Len(stars) = 2
        /\ Cardinality({i \in 1..Len(stars) : stars[i] \in 1..6}) = 1
        /\ Cardinality({i \in 1..Len(stars) : stars[i] \in 7..12}) = 1

\* a Balanced Picks line built on the empty history whose picks are not all
\* the smallest of their ranges
C3_Witness ==
    /\ Built
    /\ strategy = "Balanced Picks"
    /\ draws = <<>>
    /\ nums[1] = 10
    /\ stars[2] > 7

\* C4: "Overdue (Longest gap)" is deterministic: the line build_line returns
\* is the line it returns for the same tables and draws in every other state
\* of the random source, and all lines of one pass are the same line.
C4_OverdueDeterministic ==
    (strategy = "Overdue (Longest gap)" /\ pc \notin {"start"}) =>
        /\ \A i, j \in 1..Len(generated_lines) :
              generated_lines[i] = generated_lines[j]
        /\ Built =>
             \A rnd \in RandomStreams : \A c \in 1..RandPeriod :
                LET again == build_line(strategy, main_counter, star_counter,
                                        draws, rnd, c)
                IN  again = [main |-> nums, stars |-> stars, calls |-> 0]

\* the second Overdue line of a pass over a history that has draws
C4_Witness ==
    /\ strategy = "Overdue (Longest gap)"
    /\ Built
    /\ Len(generated_lines) = 1
    /\ Len(draws) >= 2

-----------------------------------------------------------------------------
(* Claims about overdue_gaps *)

\* the 0-based indexes of the draws in which the int n appears
AppearsAt(n, field) ==
    {i \in 1..Len(draws) :
        LET values == IF field = "numbers" THEN draws[i].numbers ELSE draws[i].stars
        IN  \E j \in 1..Len(values) : values[j] = PyInt(n)}

FirstSeen(n, field) ==
    IF AppearsAt(n, field) = {} THEN Len(draws) + 1
    ELSE (CHOOSE i \in AppearsAt(n, field) :
            \A j \in AppearsAt(n, field) : i <= j) - 1

\* C5: overdue_gaps maps every main number of 1..50 and every star of 1..12
\* to the smallest index of a draw it appears in, and to len(draws)+1 when it
\* appears in none; the tables have an entry for every number of the domain.
C5_GapIsFirstIndex ==
    pc = "ready" =>
        /\ Keys(main_gap) = MAIN_RANGE
        /\ Keys(star_gap) = STAR_RANGE
        /\ \A n \in 1..50 : main_gap[n][2] = FirstSeen(n, "numbers")
        /\ \A s \in 1..12 : star_gap[s][2] = FirstSeen(s, "stars")

\* a window of two draws with a number seen in both, one first seen in the
\* second draw and one never seen, and stars first seen in the second draw
C5_Witness ==
    /\ pc = "ready"
    /\ Len(draws) = 2
    /\ AppearsAt(5, "numbers") = {1, 2}
    /\ main_gap[5][2] = 0
    /\ main_gap[1][2] = 1
    /\ main_gap[6][2] = 3
    /\ star_gap[1][2] = 1
    /\ star_gap[11][2] = 3

-----------------------------------------------------------------------------
(* Claims about explain_line *)

\* an explain_line call has been made / has returned
Called == pc \in {"explained", "probed", "raised"}
Returned == pc \in {"explained", "probed"}

\* the positions of the supplied values that are valid integers
ValidAt(values) == {i \in 1..Len(values) : int(values[i]).err = ""}
ValueAt(values, i) == int(values[i]).v

\* the kinds of reason that are a strategy's own sentence
StrategyKinds == {"balanced", "overdue", "cold"}

OwnSentence(strat) ==
    CASE strat = "Balanced Picks" -> "balanced"
      [] strat = "Overdue (Longest gap)" -> "overdue"
      [] strat = "Cold Numbers" -> "cold"
      [] OTHER -> ""

\* C6: explain_line never fails and returns a score in 0..100; with fewer
\* than 2 valid main values it returns score 0 and exactly one reason, the
\* 'not enough valid numbers' diagnostic.
C6_ExplainTotal ==
    Called =>
        /\ raised = ""
        /\ score \in 0..100
        /\ Cardinality(ValidAt(arg_main)) < 2 =>
             /\ score = 0
             /\ Len(explanations) = 1
             /\ explanations[1].kind = "notenough"

\* the keys of the table that come before position i when the table is
\* ordered by value (largest first when reverse), ties in table order
Before(items, i, reverse) ==
    {j \in 1..Len(items) :
        \/ (IF reverse THEN items[j][2] > items[i][2] ELSE items[j][2] < items[i][2])
        \/ (items[j][2] = items[i][2] /\ j < i)}

\* the n keys of the table with the extreme values
Extreme(items, n, reverse) ==
    {items[i][1] : i \in {i \in 1..Len(items) :
                            Cardinality(Before(items, i, reverse)) < n}}

\* the key is one of the n keys of the table with the extreme values
InExtreme(key, items, n, reverse) ==
    \E i \in 1..Len(items) :
        /\ items[i][1] = key
        /\ Cardinality(Before(items, i, reverse)) < n

Bonus(cond, points) == IF cond THEN points ELSE 0

\* C7: for a line with at least 2 valid main numbers the score is
\* min(100, 55 + 12A + 10B + 8C + 8D + 4E + 6F): A the number of mains <= 25
\* is 2 or 3, B largest - smallest >= 25, C no two mains consecutive, D at
\* least 2 mains among the 10 most frequent numbers of the table, E at least
\* 1 among its 10 least frequent, F at least 1 among the 10 largest gaps.
C7_ScoreFormula ==
    (Returned /\ Cardinality(ValidAt(arg_main)) >= 2) =>
        LET V == ValidAt(arg_main)
            val(i) == ValueAt(arg_main, i)
            A == Cardinality({i \in V : val(i) <= 25}) \in {2, 3}
            B == \E i, j \in V : val(i) - val(j) >= 25
            C == ~ \E i, j \in V : val(j) = val(i) + 1
            D == Cardinality({i \in V : InExtreme(val(i), main_counter, 10, TRUE)}) >= 2
            E == Cardinality({i \in V : InExtreme(val(i), main_counter, 10, FALSE)}) >= 1
            F == Cardinality({i \in V : InExtreme(val(i), main_gap, 10, TRUE)}) >= 1
            total == 55 + Bonus(A, 12) + Bonus(B, 10) + Bonus(C, 8)
                        + Bonus(D, 8) + Bonus(E, 4) + Bonus(F, 6)
        IN  score = IF total > 100 THEN 100 ELSE total

\* a line scored over a table of more than 10 numbers, where the 10 most
\* frequent and the 10 least frequent differ, with exactly one hot main
C7_Witness ==
    /\ Returned
    /\ Cardinality(ValidAt(arg_main)) >= 2
    /\ Len(main_counter) > 10
    /\ Extreme(main_counter, 10, TRUE) # Extreme(main_counter, 10, FALSE)
    /\ Cardinality({i \in ValidAt(arg_main) :
          ValueAt(arg_main, i) \in Extreme(main_counter, 10, TRUE)}) = 1
    /\ score < 100

\* C8: with at least 2 valid main numbers and at least one valid star the
\* reasons include the sentence on the stars among the 4 most frequent
\* stars, for every strategy name.
C8_StarSentencePresent ==
    (Returned /\ Cardinality(ValidAt(arg_main)) >= 2
              /\ ValidAt(arg_stars) # {}) =>
        \E i \in 1..Len(explanations) : explanations[i].kind = "stars"

\* C9 as stated: at most 4 reasons; for Balanced, Overdue and Cold the first
\* reason is the strategy's sentence; for Hot and AI Mode no strategy
\* sentence is present and the first reason is the hit-count sentence.
C9_Original ==
    Returned =>
        /\ Len(explanations) <= 4
        /\ OwnSentence(arg_strategy) # "" =>
             explanations[1].kind = OwnSentence(arg_strategy)
        /\ OwnSentence(arg_strategy) = "" =>
             /\ \A i \in 1..Len(explanations) :
                   explanations[i].kind \notin StrategyKinds
             /\ explanations[1].kind = "hits"

\* C9 amended: explain_line returns at most 4 reasons; for a line with at
\* least 2 valid main numbers the first reason is the strategy's sentence for
\* Balanced, Overdue and Cold, and for Hot and AI Mode no strategy sentence
\* is present and the first reason is the hit-count sentence.
C9_FirstReason ==
    Returned =>
        /\ Len(explanations) <= 4
        /\ Cardinality(ValidAt(arg_main)) >= 2 =>
             /\ OwnSentence(arg_strategy) # "" =>
                  /\ explanations[1].kind = OwnSentence(arg_strategy)
                  /\ explanations[2].kind = "hits"
             /\ OwnSentence(arg_strategy) = "" =>
                  /\ \A i \in 1..Len(explanations) :
                        explanations[i].kind \notin StrategyKinds
                  /\ explanations[1].kind = "hits"

\* a Cold Numbers line with stars: four reasons, the first the strategy's
C9_Witness ==
    /\ Returned
    /\ arg_strategy = "Cold Numbers"
    /\ Cardinality(ValidAt(arg_main)) >= 2
    /\ ValidAt(arg_stars) # {}
    /\ Len(explanations) = 4
    /\ explanations[1].kind = "cold"

\* C10 as stated: explain_line returns between 2 and 4 reasons for every
\* line and strategy.
C10_Original ==
    Returned => Len(explanations) \in 2..4

\* C10 amended: explain_line returns between 2 and 4 reasons for every line
\* with at least 2 valid main numbers, and exactly 1 for a line with fewer.
C10_ReasonCount ==
    Returned =>
        IF Cardinality(ValidAt(arg_main)) >= 2
        THEN Len(explanations) \in 2..4
        ELSE Len(explanations) = 1

\* a generated line with five reasons to give, cut to four
C10_Witness ==
    /\ pc = "explained"
    /\ arg_strategy = "Balanced Picks"
    /\ Len(arg_main) = 5
    /\ Len(arg_stars) = 2
    /\ Len(explanations) = 4

-----------------------------------------------------------------------------
(* Claims about frequency_counter *)

\* the number of times the int v occurs in the field of the draws from the
\* i-th on
RECURSIVE OccurrencesFrom(_, _, _)
OccurrencesFrom(v, field, i) ==
    IF i > Len(draws) THEN 0
    ELSE LET values == IF field = "numbers" THEN draws[i].numbers ELSE draws[i].stars
         IN  Cardinality({j \in 1..Len(values) : values[j] = PyInt(v)})
             + OccurrencesFrom(v, field, i + 1)

\* counter[v]: the count of the key v, 0 for a v that is not a key
CountOf(counter, v) ==
    IF \E i \in 1..Len(counter) : counter[i][1] = v
    THEN counter[CHOOSE i \in 1..Len(counter) : counter[i][1] = v][2]
    ELSE 0

\* no key appears twice in the table
KeysDistinct(counter) ==
    \A i, j \in 1..Len(counter) : counter[i][1] = counter[j][1] => i = j

\* C11: frequency_counter counts, for every value v, the number of
\* occurrences of v in the concatenation of the draws' numbers (stars) lists;
\* a value repeated k times inside one draw contributes k.
C11_CountsOccurrences ==
    pc = "ready" =>
        /\ KeysDistinct(main_counter)
        /\ KeysDistinct(star_counter)
        /\ \A v \in 0..52 : CountOf(main_counter, v) = OccurrencesFrom(v, "numbers", 1)
        /\ \A v \in 0..14 : CountOf(star_counter, v) = OccurrencesFrom(v, "stars", 1)

\* a window of two draws where 7 occurs twice inside one draw, 5 once in
\* each draw and 6 in neither
C11_Witness ==
    /\ pc = "ready"
    /\ Len(draws) = 2
    /\ AppearsAt(7, "numbers") = {1}
    /\ CountOf(main_counter, 7) = 2
    /\ AppearsAt(5, "numbers") = {1, 2}
    /\ CountOf(main_counter, 5) = 2
    /\ CountOf(main_counter, 6) = 0
    /\ CountOf(star_counter, 2) = 1

\* C12: the keys of the main frequency table are exactly 1..50 and those of
\* the star table exactly 1..12, whichever numbers appeared in the window.
C12_FullKeyDomain ==
    pc = "ready" =>
        /\ Range(Keys(main_counter)) = 1..50
        /\ Range(Keys(star_counter)) = 1..12

-----------------------------------------------------------------------------
(* More claims about explain_line and build_line *)

\* the number of appearances of n of 1..50 in the window, by the tables
DomainCount(n) == CountOf(main_counter, n)

\* n is among the 10 numbers of 1..50 with the lowest count whichever way
\* equal counts are ordered / n is among them in no ordering
SurelyLeastFrequent(n) ==
    Cardinality({m \in 1..50 : m # n /\ DomainCount(m) <= DomainCount(n)}) < 10
NeverLeastFrequent(n) ==
    Cardinality({m \in 1..50 : DomainCount(m) < DomainCount(n)}) >= 10

\* C16: the +4 bonus is granted exactly when at least one main number of the
\* line is among the 10 numbers of 1..50 with the lowest appearance count,
\* a number that never appeared having count 0.
C16_LeastFrequentOverDomain ==
    (Returned /\ Cardinality(ValidAt(arg_main)) >= 2) =>
        LET V == ValidAt(arg_main)
            val(i) == ValueAt(arg_main, i)
            A == Cardinality({i \in V : val(i) <= 25}) \in {2, 3}
            B == \E i, j \in V : val(i) - val(j) >= 25
            C == ~ \E i, j \in V : val(j) = val(i) + 1
            D == Cardinality({i \in V : InExtreme(val(i), main_counter, 10, TRUE)}) >= 2
            F == Cardinality({i \in V : InExtreme(val(i), main_gap, 10, TRUE)}) >= 1
            rest == 55 + Bonus(A, 12) + Bonus(B, 10) + Bonus(C, 8)
                       + Bonus(D, 8) + Bonus(F, 6)
        IN  /\ (\E i \in V : val(i) \in 1..50 /\ SurelyLeastFrequent(val(i)))
                 => score = Min2(100, rest + 4)
            /\ (\A i \in V : val(i) \in 1..50 /\ NeverLeastFrequent(val(i)))
                 => score = Min2(100, rest)

\* C20: "Overdue (Longest gap)" returns 5 numbers of 1..50 in ascending
\* order such that every unselected number has a smaller gap than every
\* selected one, or the same gap as a selected one and is then the larger
\* number; likewise 2 stars of 1..12.
C20_OverdueLargestGaps ==
    (Built /\ strategy = "Overdue (Longest gap)") =>
        /\ Len(nums) = 5
        /\ Len(stars) = 2
        /\ WellFormed(nums, 5, 50)
        /\ WellFormed(stars, 2, 12)
        /\ \A n \in Range(nums) : \A m \in (1..50) \ Range(nums) :
              \/ FirstSeen(m, "numbers") < FirstSeen(n, "numbers")
              \/ (FirstSeen(m, "numbers") = FirstSeen(n, "numbers") /\ m > n)
        /\ \A n \in Range(stars) : \A m \in (1..12) \ Range(stars) :
              \/ FirstSeen(m, "stars") < FirstSeen(n, "stars")
              \/ (FirstSeen(m, "stars") = FirstSeen(n, "stars") /\ m > n)

\* an Overdue line over a window whose newest draw holds 1..5: the smallest
\* numbers are passed over for their gap and the ties go to the smaller ones
C20_Witness ==
    /\ Built
    /\ strategy = "Overdue (Longest gap)"
    /\ Len(draws) = 2
    /\ FirstSeen(1, "numbers") = 0
    /\ FirstSeen(10, "numbers") = 1
    /\ nums = <<6, 7, 8, 9, 11>>
    /\ stars = <<3, 4>>

-----------------------------------------------------------------------------
(* Claims about the retry loop of the generate pass *)

\* the numbers of the most recent draw of the window
NewestNumbers ==
    IF draws = <<>> THEN {}
    ELSE {draws[1].numbers[j].v : j \in 1..Len(draws[1].numbers)}

\* C15: with 'allow numbers from most recent draw' off, the retry loop of a
\* line makes at most 10 re-invocations of build_line, and it is left either
\* with main numbers disjoint from the most recent draw's or after exactly 10
\* retries, the last line being explained and kept without error.
C15_RetryBounded ==
    ~include_last_draw =>
        /\ attempts \in 0..10
        /\ pc # "raised"
        /\ pc = "explained" =>
             /\ (Range(nums) \cap NewestNumbers = {}) \/ attempts = 10
             /\ generated_lines[Len(generated_lines)] =
                    [main |-> nums, stars |-> stars]

\* a line kept after 10 retries that still shares a number with the most
\* recent draw
C15_Witness ==
    /\ ~include_last_draw
    /\ pc = "explained"
    /\ attempts = 10
    /\ Range(nums) \cap NewestNumbers # {}
    /\ generated_lines[Len(generated_lines)] = [main |-> nums, stars |-> stars]

\* C19: build_line, explain_line, frequency_counter and overdue_gaps leave
\* their arguments unchanged: no call changes the draws list, and once the
\* tables are computed no call, the repeated build_line calls of the retry
\* loop included, changes the frequency tables or the gap tables.
C19_ArgumentsUnchanged ==
    [][/\ draws' = draws
       /\ pc # "start" =>
            UNCHANGED <<main_counter, star_counter, main_gap, star_gap>>]_vars

\* a second line of a Hot Numbers pass that went through retries, the
\* tables still those of the window
C19_Witness ==
    /\ ~include_last_draw
    /\ strategy = "Hot Numbers"
    /\ pc = "explained"
    /\ attempts >= 2
    /\ Len(generated_lines) = 2
    /\ Len(main_counter) >= 5
    /\ \A v \in 0..52 : CountOf(main_counter, v) = OccurrencesFrom(v, "numbers", 1)

-----------------------------------------------------------------------------
(* Claims about prepare_draws *)

\* the ints of the elements that convert to an integer, in order
RECURSIVE KeptInts(_)
KeptInts(items) ==
    IF items = <<>> THEN <<>>
    ELSE LET x == Head(items)
             kept == CASE x.k \in {"int", "str"} -> <<x.v>>
                       [] x.k = "float" -> <<x.v \div 10>>
                       [] OTHER -> <<>>
         IN  kept \o KeptInts(Tail(items))

\* the prepared draw is the payload draw with its lists normalized
NormalizedFrom(p, q) ==
    /\ p.date = q.date
    /\ p.drawDate = q.drawDate
    /\ p.draw_date = q.draw_date
    /\ p.numbers = KeptInts(IF q.numbers.none THEN <<>> ELSE q.numbers.items)
    /\ p.stars = KeptInts(IF q.stars.none THEN <<>> ELSE q.stars.items)

\* C13: draw normalization never raises, whatever the elements are: every
\* element convertible to an integer is kept as an int in order, every other
\* element is dropped, and a missing or None field gives the empty list.
C13_NormalizeTotal ==
    pc \in {"returned", "failed"} =>
        /\ pc = "returned"
        /\ raised = ""
        /\ \A i \in 1..Len(prepared) :
              \E j \in 1..Len(payload) : NormalizedFrom(prepared[i], payload[j])

\* the calendar date a date text carries, <<y, m, d>>, or <<>> for none
Carried(value) ==
    IF value.k # "date" THEN <<>>
    ELSE LET ymd == IF value.sep = "/" THEN <<value.c, value.b, value.a>>
                    ELSE <<value.a, value.b, value.c>>
         IN  IF /\ ymd[2] \in 1..12
                /\ ymd[3] >= 1
                /\ ymd[3] <= (IF ymd[2] = 2
                              THEN (IF IsLeap(ymd[1]) THEN 29 ELSE 28)
                              ELSE IF ymd[2] \in {4, 6, 9, 11} THEN 30 ELSE 31)
                /\ (value.sep = "/" => ~value.time)
             THEN ymd ELSE <<>>

\* the date of a draw: that of the first of the three keys that carries one
DrawDate(draw) ==
    IF Carried(draw.date) # <<>> THEN Carried(draw.date)
    ELSE IF Carried(draw.drawDate) # <<>> THEN Carried(draw.drawDate)
    ELSE Carried(draw.draw_date)

Earlier(x, y) ==
    \/ x[1] < y[1]
    \/ x[1] = y[1] /\ x[2] < y[2]
    \/ x[1] = y[1] /\ x[2] = y[2] /\ x[3] < y[3]

\* C14: prepare_draws returns the draws in non-increasing order of their
\* date, whichever key carries it and in whichever format, every draw
\* without a parseable date after all the dated ones, and the numbers and
\* stars of each returned draw are lists of integers.
C14_NewestFirst ==
    pc = "returned" =>
        /\ \A i, j \in 1..Len(prepared) :
              i < j =>
                 /\ DrawDate(prepared[i]) = <<>> => DrawDate(prepared[j]) = <<>>
                 /\ (DrawDate(prepared[i]) # <<>> /\ DrawDate(prepared[j]) # <<>>)
                       => ~Earlier(DrawDate(prepared[i]), DrawDate(prepared[j]))
        /\ \A i \in 1..Len(prepared) :
              /\ \A k \in 1..Len(prepared[i].numbers) : prepared[i].numbers[k] \in Int
              /\ \A k \in 1..Len(prepared[i].stars) : prepared[i].stars[k] \in Int
              /\ \E j \in 1..Len(payload) :
                    /\ prepared[i].date = payload[j].date
                    /\ prepared[i].drawDate = payload[j].drawDate
                    /\ prepared[i].draw_date = payload[j].draw_date

\* three draws dated under the three keys and in the three formats, handed
\* over oldest-but-one first and returned newest first
C14_Witness ==
    /\ pc = "returned"
    /\ Len(payload) = 3
    /\ payload[1].date = DateText("-", 2026, 3, 3, FALSE)
    /\ payload[2].drawDate = DateText("/", 1, 3, 2026, FALSE)
    /\ payload[3].draw_date = DateText("-", 2026, 3, 7, TRUE)
    /\ history_n = 3
    /\ [i \in 1..3 |-> prepared[i].numbers] = <<<<8, 9, 10>>, <<1, 2, 3>>, <<5, 6, 7>>>>

-----------------------------------------------------------------------------
(* Claims about count_line_matches and upcoming_draw_dates *)

\* C17: count_line_matches returns the number of the line's main values
\* that are in winning_mains plus the number of its star values that are in
\* winning_stars; a main never counts against winning_stars nor a star
\* against winning_mains.
C17_MatchCount ==
    pc = "returned" =>
        matches = Cardinality({i \in 1..Len(ticket_line.main) :
                                 ticket_line.main[i] \in winning_mains})
                  + Cardinality({j \in 1..Len(ticket_line.stars) :
                                   ticket_line.stars[j] \in winning_stars})

\* a line with a main that is only a winning star and a star that is only a
\* winning main: neither counts
C17_Witness ==
    /\ pc = "returned"
    /\ ticket_line = Line(<<9, 11, 12>>, <<11, 27>>)
    /\ winning_mains = {11, 27}
    /\ winning_stars = {9, 11, 12}
    /\ matches = 2

\* a Tuesday or a Friday
TueOrFri(d) == (d - 1) % 7 \in {1, 4}

\* C18: for every start date and every weeks value upcoming_draw_dates
\* terminates and returns exactly 2*max(1, weeks) dates, strictly
\* increasing, each a Tuesday or Friday, the first the earliest
\* Tuesday/Friday on or after the start date (at most 3 days later), with no
\* Tuesday or Friday skipped between consecutive dates.
C18_UpcomingDates ==
    pc \in {"returned", "failed"} =>
        /\ pc = "returned"
        /\ Len(upcoming) = 2 * (IF weeks > 1 THEN weeks ELSE 1)
        /\ \A i \in 1..Len(upcoming) : TueOrFri(upcoming[i])
        /\ upcoming[1] \in from_date..(from_date + 3)
        /\ \A d \in from_date..(upcoming[1] - 1) : ~TueOrFri(d)
        /\ \A i \in 1..(Len(upcoming) - 1) :
              /\ upcoming[i] < upcoming[i + 1]
              /\ \A d \in (upcoming[i] + 1)..(upcoming[i + 1] - 1) : ~TueOrFri(d)

-----------------------------------------------------------------------------
(* Claims about the weighted strategies *)

\* the keys of a frequency table
KeySet(counter) == Range(Keys(counter))

\* exactly min(k, number of keys) values, each a key, none twice
SampledFrom(seq, k, counter) ==
    /\ Len(seq) = Min2(k, Cardinality(KeySet(counter)))
    /\ Range(seq) \subseteq KeySet(counter)
    /\ Cardinality(Range(seq)) = Len(seq)

\* C21: for "Hot Numbers" and "Cold Numbers" the main result has exactly
\* min(5, number of distinct keys of main_counts) values, each a key of
\* main_counts and each picked at most once; likewise the stars with
\* min(2, number of distinct keys of star_counts).
C21_SampledWithoutReplacement ==
    (Built /\ strategy \in {"Hot Numbers", "Cold Numbers"}) =>
        /\ SampledFrom(nums, 5, main_counter)
        /\ SampledFrom(stars, 2, star_counter)

\* a table of more keys than are asked for and a table of fewer: five of
\* six mains, and the one star there is
C21_Witness ==
    /\ Built
    /\ strategy = "Cold Numbers"
    /\ Cardinality(KeySet(main_counter)) = 6
    /\ Len(nums) = 5
    /\ Cardinality(KeySet(star_counter)) = 1
    /\ Len(stars) = 1

\* the iterations of the main pick and of the star pick of the line just
\* built by a weighted strategy
MainPickSteps ==
    PickTrace(WeightPool(main_counter), Len(nums), strategy = "Cold Numbers",
              rnd_stream, rnd_calls - Len(nums) - Len(stars) + 1)

StarPickSteps ==
    PickTrace(WeightPool(star_counter), Len(stars), strategy = "Cold Numbers",
              rnd_stream, rnd_calls - Len(stars) + 1)

\* the keys selected before step t
SelectedBefore(steps, t) == {steps[u].selected : u \in 1..(t - 1)}

\* w(c) = max(1, count of c)
ClampedCount(counter, key) == Max2(1, CountOf(counter, key))

\* at every step the candidates are the keys not selected so far, and each
\* weighs M - w + 1, M being the largest w among the candidates of that step
ColdWeights(steps, counter) ==
    \A t \in 1..Len(steps) :
        LET candidates == Keys(steps[t].pool)
            M == SeqMax([i \in 1..Len(candidates) |->
                            ClampedCount(counter, candidates[i])])
        IN  /\ candidates = SelectSeq(Keys(counter),
                                LAMBDA key : key \notin SelectedBefore(steps, t))
            /\ Len(steps[t].weights) = Len(candidates)
            /\ \A i \in 1..Len(candidates) :
                  LET w == ClampedCount(counter, candidates[i])
                  IN  /\ steps[t].weights[i] = M - w + 1
                      /\ steps[t].weights[i] >= 1
                      /\ (w = M) => steps[t].weights[i] = 1

\* C22: in "Cold Numbers", at every pick step each candidate c still in the
\* pool gets weight M - w(c) + 1, where w(c) = max(1, count of c) and M is the
\* maximum w over the candidates remaining at that step; every remaining
\* candidate has weight at least 1 and those with the highest count have
\* weight exactly 1.
C22_ColdWeightsRelative ==
    (Built /\ strategy = "Cold Numbers") =>
        /\ sorted([t \in 1..Len(MainPickSteps) |-> MainPickSteps[t].selected]) = nums
        /\ sorted([t \in 1..Len(StarPickSteps) |-> StarPickSteps[t].selected]) = stars
        /\ ColdWeights(MainPickSteps, main_counter)
        /\ ColdWeights(StarPickSteps, star_counter)

\* the two most frequent mains are picked first, so that the largest count
\* among the candidates drops from 2 to 1 during the pick
C22_Witness ==
    /\ Built
    /\ strategy = "Cold Numbers"
    /\ Len(MainPickSteps) = 5
    /\ SeqMax(MainPickSteps[1].weights) = 2
    /\ \E i \in 1..Len(MainPickSteps[1].pool) : MainPickSteps[1].pool[i][2] = 2
    /\ \A i \in 1..Len(MainPickSteps[3].pool) : MainPickSteps[3].pool[i][2] = 1
    /\ \A i \in 1..Len(MainPickSteps[3].weights) : MainPickSteps[3].weights[i] = 1

-----------------------------------------------------------------------------
(* Claims about the blend strategy and top_n *)

\* the gap tables of the pass, as build_line computes them from the window
PassGaps == [main |-> main_gap, star |-> star_gap]

\* k distinct values of the pool, ascending
DistinctMembers(seq, k, pool) ==
    /\ Len(seq) = k
    /\ Range(seq) \subseteq Range(pool)
    /\ \A i \in 1..(Len(seq) - 1) : seq[i] < seq[i + 1]

\* C23: in "AI Mode (Blend)", and for any strategy name that is none of the
\* other four, the candidate main pool is the union of the first 6
\* most-frequent mains, the first 6 most-overdue mains and all of 1..50, so
\* it contains every number of 1..50 and has at least 5 elements; the 5
\* returned mains are distinct members of it; likewise the star pool contains
\* all of 1..12 and 2 distinct stars are returned.
C23_BlendPool ==
    (Built /\ strategy = "AI Mode (Blend)") =>
        LET pool_main == candidate_main(main_counter, PassGaps)
            pool_stars == candidate_stars(star_counter, PassGaps)
        IN  /\ Range(pool_main) = Extreme(main_counter, 6, TRUE)
                                  \cup Extreme(main_gap, 6, TRUE) \cup (1..50)
            /\ (1..50) \subseteq Range(pool_main)
            /\ Len(pool_main) >= 5
            /\ DistinctMembers(nums, 5, pool_main)
            /\ Range(pool_stars) = Extreme(star_counter, 3, TRUE)
                                   \cup Extreme(star_gap, 3, TRUE) \cup (1..12)
            /\ (1..12) \subseteq Range(pool_stars)
            /\ DistinctMembers(stars, 2, pool_stars)
            /\ build_line("Lucky Dip", main_counter, star_counter, draws,
                          rnd_stream, rnd_calls - 6)
               = [main |-> nums, stars |-> stars, calls |-> 7]

\* a window whose most frequent mains bring a 51st candidate into the pool
C23_Witness ==
    /\ Built
    /\ strategy = "AI Mode (Blend)"
    /\ Len(draws) = 2
    /\ Len(candidate_main(main_counter, PassGaps)) = 51
    /\ Len(nums) = 5
    /\ Len(stars) = 2

\* the position of a key in the table
PositionOf(counter, key) == CHOOSE i \in 1..Len(counter) : counter[i][1] = key

\* value a sorts no later than value b in the direction of the sort
NoLater(a, b, reverse) == IF reverse THEN a >= b ELSE a <= b

\* result is what the claim says of top_n(counter, n, reverse)
TopNOf(result, counter, n, reverse) ==
    /\ Len(result) = Min2(n, Cardinality(KeySet(counter)))
    /\ Range(result) \subseteq KeySet(counter)
    /\ Cardinality(Range(result)) = Len(result)
    /\ \A key \in Range(result) : \A other \in KeySet(counter) \ Range(result) :
          NoLater(CountOf(counter, key), CountOf(counter, other), reverse)
    /\ \A i, j \in 1..Len(result) :
          i < j =>
            /\ NoLater(CountOf(counter, result[i]), CountOf(counter, result[j]),
                       reverse)
            /\ CountOf(counter, result[i]) = CountOf(counter, result[j])
                  => PositionOf(counter, result[i]) < PositionOf(counter, result[j])

\* C24: top_n(counter, n, reverse) returns min(n, number of keys) keys; with
\* reverse=True every returned key's value is >= every non-returned key's
\* value (<= with reverse=False); the returned keys are ordered by value,
\* descending for reverse=True and ascending otherwise; keys of equal value
\* appear in the table's insertion order in both directions.
C24_TopN ==
    pc = "ready" =>
        /\ TopNOf(insight_hot_main, main_counter, topn, TRUE)
        /\ TopNOf(insight_cold_main, main_counter, topn, FALSE)
        /\ TopNOf(insight_hot_star, star_counter, Min2(topn, 3), TRUE)
        /\ TopNOf(insight_cold_star, star_counter, Min2(topn, 3), FALSE)

\* a table of six keys, one counted twice and five counted once, cut to
\* three: ties in insertion order in either direction
C24_Witness ==
    /\ pc = "ready"
    /\ topn = 3
    /\ Keys(main_counter) = <<5, 7, 26, 27, 49, 51>>
    /\ insight_hot_main = <<7, 5, 26>>
    /\ insight_cold_main = <<5, 26, 27>>

-----------------------------------------------------------------------------
(* More claims about the retry loop *)

\* the gap of a main number in the pass's gap table
GapOf(n) == CountOf(main_gap, n)

\* C26: with "Overdue (Longest gap)" and a non-empty history whose newest
\* draw has at most 45 distinct main numbers, the returned mains never
\* include a number of the newest draw (every selected number has gap >= 1),
\* so the retry loop performs zero retries for this strategy.
C26_OverdueAvoidsNewest ==
    (strategy = "Overdue (Longest gap)" /\ pc \in {"built", "explained"}
        /\ draws # <<>> /\ Cardinality(NewestNumbers) <= 45) =>
        /\ Range(nums) \cap NewestNumbers = {}
        /\ \A i \in 1..Len(nums) : GapOf(nums[i]) >= 1
        /\ ~RetryCondition
        /\ attempts = 0

\* the second line of an overdue pass after the newest draw 1..5: built at
\* the first attempt out of the numbers from 6 on
C26_Witness ==
    /\ Built
    /\ strategy = "Overdue (Longest gap)"
    /\ ~include_last_draw
    /\ NewestNumbers = {1, 2, 3, 4, 5}
    /\ Len(generated_lines) = 1
    /\ nums = <<6, 7, 8, 9, 10>>
    /\ attempts = 0

-----------------------------------------------------------------------------
(* Claims about draw_from_payload *)

\* C27: for every payload, draw_from_payload returns a Draw (not None)
\* exactly when parse_draw_timestamp returns a finite timestamp, and then the
\* Draw's date is the date of that timestamp, including when an earlier date
\* key holds unparseable text and a later key holds a valid date.
C27_DateReadersAgree ==
    pc \in {"converted", "convert_failed"} =>
        LET finite == parse_draw_timestamp(draw_arg[1]) # NegInfinity
        IN  /\ (pc = "converted" /\ ~draw_result.none) <=> finite
            /\ finite => timestamp(draw_result.draw_date)
                         = parse_draw_timestamp(draw_arg[1])

-----------------------------------------------------------------------------
(* Claims about the reasons of explain_line *)

\* C28: in the 'low/high split' reason of explain_line the two reported
\* counts are the number of supplied valid main numbers <= 25 and the number
\* of supplied valid main numbers > 25, so both are non-negative and they sum
\* to the number of valid main numbers, for a line of any length >= 2.
C28_LowHighSplit ==
    (Returned /\ Cardinality(ValidAt(arg_main)) >= 2) =>
        \E r \in 1..Len(explanations) :
            /\ explanations[r].kind = "spread"
            /\ explanations[r].b =
                  Cardinality({i \in ValidAt(arg_main) : ValueAt(arg_main, i) <= 25})
            /\ explanations[r].c =
                  Cardinality({i \in ValidAt(arg_main) : ValueAt(arg_main, i) > 25})
            /\ explanations[r].b >= 0
            /\ explanations[r].c >= 0
            /\ explanations[r].b + explanations[r].c = Cardinality(ValidAt(arg_main))

-----------------------------------------------------------------------------
(* Claims about the ticket storage *)

\* a step of the script that reads localStorage
ReadStep == storage_reads' = storage_reads + 1

\* a step of one of the three mutating actions: the session's list changes
MutatingStep ==
    /\ ~session_tickets.none
    /\ ~session_tickets'.none
    /\ session_tickets' # session_tickets

\* C25: browser storage is read only when the session has no ticket list
\* yet, and after each of the three mutating actions (save ticket, clear all
\* tickets, delete one ticket) the list last written to browser storage is
\* the session's current list: it is the list handed to the save, and the
\* browser's item holds it whenever no save of the session has failed.
C25_LoadOncePersistOnMutate ==
    [][/\ ReadStep => session_tickets.none
       /\ MutatingStep =>
            /\ last_saved' = session_tickets'
            /\ WarnNotSaved \notin ticket_storage_warnings'
                 => deserialize_tickets(local_storage') = session_tickets'.items]_vars

\* a session that loaded two tickets, then saved, deleted, cleared and saved
\* again, every write having reached the browser
C25_Witness ==
    /\ stored_at_start = {101, 102}
    /\ storage_reads = 1
    /\ saved_new
    /\ deleted_ids # {}
    /\ cleared
    /\ WarnNotSaved \notin ticket_storage_warnings
    /\ session_tickets = List(<<Ticket(2)>>)
    /\ last_saved = session_tickets
    /\ local_storage = JsonListText(<<Ticket(2)>>)

\* the ids of the tickets in the browser's item
StoredIds == TicketIds(deserialize_tickets(local_storage))

\* C29: a ticket that is in browser storage when a session starts is still
\* in browser storage after the user saves a new ticket in that session,
\* unless the user cleared all tickets or deleted that ticket; also when the
\* first storage read of the session returns nothing usable.
C29_StoredTicketsSurviveSave ==
    (saved_new /\ ~cleared) =>
        \A id \in stored_at_start \ deleted_ids : id \in StoredIds

\* C30: load_tickets_from_localstorage raises the 'Saved ticket data looks
\* corrupted' warning only when the stored text is not a valid JSON list of
\* ticket objects; after the user clears all tickets, which persists an
\* empty list, the next session's load returns an empty list without that
\* warning.
C30_CorruptedOnlyWhenCorrupted ==
    (storage_reads = 1 /\ WarnCorrupted \in ticket_storage_warnings) =>
        ~ /\ read_response.k = "json_list"
          /\ \A i \in 1..Len(read_response.items) : read_response.items[i].k = "dict"

====
